---- MODULE Spec2Model ----
(***************************************************************************)
(* Model of the response-resolution and provider-translation engine of    *)
(* the LLM debugger server: the model registry with trigger inheritance,  *)
(* the behavior resolver, the usage calculator and the translators.       *)
(*                                                                         *)
(* Representation of JavaScript values:                                    *)
(*   - a string is a sequence of one-character strings (a text), the      *)
(*     empty string, which is falsy, being << >>; a null or undefined     *)
(*     string that the code only tests for truthiness is << >> too;       *)
(*   - an object is a record; a property that is absent or undefined is    *)
(*     a field that is not in the DOMAIN of the record;                    *)
(*   - null is the record Null;                                            *)
(*   - the fixed tags of the wire formats and of the configuration (type,  *)
(*     mode, role, object, event) are TLA+ strings.                        *)
(***************************************************************************)
EXTENDS Integers, Sequences, FiniteSets, TLC

VARIABLES
    config,        \* the server configuration, with config.modelRegistry
    req,           \* the request being handled, Null when idle
    pc,            \* position of the request handler
    modelName,     \* resolveTriggerResponse: parameter modelName
    userMessage,   \* resolveTriggerResponse: parameter userMessage
    current,       \* resolveTriggerResponse: local current
    visited,       \* resolveTriggerResponse: local visited
    fallback,      \* resolveTriggerResponse: local fallback
    triggerMatch,  \* resolveResponse: local triggerMatch
    result,        \* the ResolutionResult of resolveResponse
    out,           \* what the handler sent: status, body or event list
    sse,           \* streamSse: its parameters, its locals and the response it writes
    fileStore,     \* the FileStore of the server: its files and the ids generated so far
    daemon         \* the daemon command: PID file, processes, signals sent, elapsed time

vars == <<config, req, pc, modelName, userMessage, current, visited, fallback,
          triggerMatch, result, out, sse, fileStore, daemon>>

walkVars == <<modelName, userMessage, current, visited, fallback, triggerMatch>>

-----------------------------------------------------------------------------
(* Bounds of the model *)

MaxEntries == 2

\* largest token number of a usage record or usage override drawn as input
MaxTokens == 1

-----------------------------------------------------------------------------
(* JavaScript values *)

Null == [null |-> TRUE]

EmptyObject == [k \in {} |-> k]

Has(obj, key) == key \in DOMAIN obj

\* { ...(cond ? { key: value } : {}) }
Field(cond, key, value) == IF cond THEN key :> value ELSE EmptyObject

SeqsUpTo(S, n) == UNION {[1..k -> S] : k \in 0..n}

Hello == <<"h", "i">>
Other == <<"y", "o">>

-----------------------------------------------------------------------------
(* Model registry: trigger models with inheritance *)

TriggerNames == {<<"A">>, <<"B">>}

\* "Z" is a parent name that no configuration defines
ParentNames == TriggerNames \cup {<<"Z">>}

Matches == {Hello, Other}

\* the bare-string directive of entry i of model name
EntryDirective(name, i) == [string |-> name \o <<ToString(i)>>]

DefaultDirective(name) == [string |-> name \o <<"d">>]

\* the value parseTriggerList returns: { entries, defaultEntry, parent }
TriggerModel(name, matches, hasDefault, parent) ==
    [entries |-> [i \in 1..Len(matches) |->
                    [match |-> matches[i], response |-> EntryDirective(name, i)]]]
    @@ Field(hasDefault, "defaultEntry", [response |-> DefaultDirective(name)])
    @@ Field(parent # <<>>, "parent", parent)

TriggerModelsOf(name) ==
    {TriggerModel(name, ms, d, p) :
        ms \in SeqsUpTo(Matches, MaxEntries), d \in BOOLEAN, p \in ParentNames \cup {<<>>}}

\* the parents recorded by parseTriggerList in baseModels
BaseModelsOf(triggerModels) ==
    {triggerModels[n].parent : n \in {m \in DOMAIN triggerModels : Has(triggerModels[m], "parent")}}

MakeRegistry(triggerModels, behaviorModels) ==
    [triggerModels |-> triggerModels,
     behaviorModels |-> behaviorModels,
     baseModels |-> BaseModelsOf(triggerModels)]

\* the trigger registries over TriggerNames, each name defined or not
TriggerRegistries ==
    {MakeRegistry([n \in defined |-> f[n]], EmptyObject) :
        defined \in SUBSET TriggerNames,
        f \in {g \in [TriggerNames -> UNION {TriggerModelsOf(n) : n \in TriggerNames}] :
                  \A n \in TriggerNames : g[n] \in TriggerModelsOf(n)}}

-----------------------------------------------------------------------------
(* resolveTriggerResponse, one action per outcome of a loop iteration *)

TriggerModels == config.modelRegistry.triggerModels

\* const visited = new Set(); let current = modelName; let fallback = null;
StartWalk(name, message) ==
    /\ modelName' = name
    /\ userMessage' = message
    /\ current' = name
    /\ visited' = {}
    /\ fallback' = Null
    /\ triggerMatch' = Null
    /\ pc' = "walk"

\* the loop condition without the visited set
LoopGuardNoVisited == current # <<>>

\* while (current && !visited.has(current))
LoopGuard == current # <<>> /\ current \notin visited

MatchingEntries(model) ==
    {i \in 1..Len(model.entries) : model.entries[i].match = userMessage}

\* the last matching entry instead of the first
LastMatch(model) ==
    CHOOSE i \in MatchingEntries(model) : \A j \in MatchingEntries(model) : i >= j

FirstMatch(model) ==
    CHOOSE i \in MatchingEntries(model) : \A j \in MatchingEntries(model) : i <= j

\* the loop condition fails: return fallback
WalkExit ==
    /\ pc = "walk"
    /\ ~LoopGuard
    /\ triggerMatch' = fallback
    /\ pc' = "walked"
    /\ UNCHANGED <<daemon, fileStore, sse, config, req, modelName, userMessage, current, visited, fallback, result, out>>

\* if (!model) break; return fallback
WalkMissing ==
    /\ pc = "walk"
    /\ LoopGuard
    /\ current \notin DOMAIN TriggerModels
    /\ visited' = visited \cup {current}
    /\ triggerMatch' = fallback
    /\ pc' = "walked"
    /\ UNCHANGED <<daemon, fileStore, sse, config, req, modelName, userMessage, current, fallback, result, out>>

\* an entry matches: return { response, model: current, isDefault: false }
\* a matching entry that is consumed by its first match
WalkMatchConsumingEntry ==
    /\ pc = "walk"
    /\ LoopGuard
    /\ current \in DOMAIN TriggerModels
    /\ MatchingEntries(TriggerModels[current]) # {}
    /\ visited' = visited \cup {current}
    /\ triggerMatch' =
          [response |-> TriggerModels[current].entries[FirstMatch(TriggerModels[current])].response,
           model |-> current,
           isDefault |-> FALSE]
    /\ pc' = "walked"
    /\ UNCHANGED <<daemon, fileStore, sse, req, modelName, userMessage, current, fallback, result, out>>
    /\ config' = [config EXCEPT !.modelRegistry.triggerModels[current].entries = <<>>]

WalkMatch ==
    /\ pc = "walk"
    /\ LoopGuard
    /\ current \in DOMAIN TriggerModels
    /\ MatchingEntries(TriggerModels[current]) # {}
    /\ visited' = visited \cup {current}
    /\ triggerMatch' =
          [response |-> TriggerModels[current].entries[FirstMatch(TriggerModels[current])].response,
           model |-> current,
           isDefault |-> FALSE]
    /\ pc' = "walked"
    /\ UNCHANGED <<daemon, fileStore, sse, config, req, modelName, userMessage, current, fallback, result, out>>

\* no entry matches: return the model's own default at once when it has one
WalkParentShortCircuit ==
    /\ pc = "walk"
    /\ LoopGuard
    /\ current \in DOMAIN TriggerModels
    /\ MatchingEntries(TriggerModels[current]) = {}
    /\ visited' = visited \cup {current}
    /\ IF Has(TriggerModels[current], "defaultEntry")
       THEN /\ triggerMatch' = [response |-> TriggerModels[current].defaultEntry.response,
                                model |-> current,
                                isDefault |-> TRUE]
            /\ pc' = "walked"
            /\ UNCHANGED <<daemon, fileStore, sse, current, fallback>>
       ELSE /\ current' = IF Has(TriggerModels[current], "parent")
                          THEN TriggerModels[current].parent ELSE <<>>
            /\ UNCHANGED <<daemon, fileStore, sse, pc, triggerMatch, fallback>>
    /\ UNCHANGED <<daemon, fileStore, sse, config, req, modelName, userMessage, result, out>>

\* no entry matches: record the default if none is recorded, go to the parent
WalkParent ==
    /\ pc = "walk"
    /\ LoopGuard
    /\ current \in DOMAIN TriggerModels
    /\ MatchingEntries(TriggerModels[current]) = {}
    /\ visited' = visited \cup {current}
    /\ fallback' =
          IF fallback = Null /\ Has(TriggerModels[current], "defaultEntry")
          THEN [response |-> TriggerModels[current].defaultEntry.response,
                model |-> current,
                isDefault |-> TRUE]
          ELSE fallback
    /\ current' =
          IF Has(TriggerModels[current], "parent") THEN TriggerModels[current].parent ELSE <<>>
    /\ UNCHANGED <<daemon, fileStore, sse, config, req, pc, modelName, userMessage, triggerMatch, result, out>>

Walk == WalkExit \/ WalkMissing \/ WalkMatch \/ WalkParent

-----------------------------------------------------------------------------
(* Strings: trim, toLowerCase and the token counter of utils.js *)

IsSpace(c) == c = " "

\* String.prototype.trim
Trim(text) ==
    LET kept == {i \in 1..Len(text) : ~IsSpace(text[i])}
    IN  IF kept = {}
        THEN <<>>
        ELSE SubSeq(text,
                    CHOOSE i \in kept : \A j \in kept : i <= j,
                    CHOOSE i \in kept : \A j \in kept : i >= j)

UpperCase == <<"A", "B", "C", "D", "E", "F", "G", "H", "I", "J", "K", "L", "M",
               "N", "O", "P", "Q", "R", "S", "T", "U", "V", "W", "X", "Y", "Z">>

LowerCase == <<"a", "b", "c", "d", "e", "f", "g", "h", "i", "j", "k", "l", "m",
               "n", "o", "p", "q", "r", "s", "t", "u", "v", "w", "x", "y", "z">>

LowerChar(c) ==
    IF \E i \in 1..Len(UpperCase) : UpperCase[i] = c
    THEN LowerCase[CHOOSE i \in 1..Len(UpperCase) : UpperCase[i] = c]
    ELSE c

\* String.prototype.toLowerCase
ToLowerCase(text) == [i \in 1..Len(text) |-> LowerChar(text[i])]

\* trimmed.split(/\s+/).length of a trimmed, non-empty text: its words
WordCount(trimmed) ==
    Cardinality({i \in 1..Len(trimmed) :
                    /\ ~IsSpace(trimmed[i])
                    /\ (i = 1 \/ IsSpace(trimmed[i - 1]))})

\* countTokens(input, strategy); an undefined input is passed as << >>
countTokens(input, strategy) ==
    IF input = <<>>
    THEN 0
    ELSE IF strategy = "words"
         THEN IF Trim(input) = <<>> THEN 0 ELSE WordCount(Trim(input))
         ELSE Len(input)

RECURSIVE SumTokens(_, _)
SumTokens(values, strategy) ==
    IF values = <<>>
    THEN 0
    ELSE countTokens(Head(values), strategy) + SumTokens(Tail(values), strategy)

\* the count of the first value only
combineTokensFirstOnly(values, strategy) ==
    IF values = <<>> THEN 0 ELSE countTokens(Head(values), strategy)

\* combineTokens(values, strategy) on an array of strings
combineTokens(values, strategy) == SumTokens(values, strategy)

\* generateId(prefix): the prefix and an opaque random part
generateId(prefix) == [prefix |-> prefix, uuid |-> "randomUUID"]

\* obj.key of a string property, << >> when it is undefined
TextOf(obj, key) == IF Has(obj, key) THEN obj[key] ELSE <<>>

\* a || b on strings
OrText(a, b) == IF a # <<>> THEN a ELSE b

-----------------------------------------------------------------------------
(* Usage calculator *)

\* usageOverrides?.output ?? outputTokens without the override
buildUsageIgnoringOutput(response, inputText, usageOverrides, tokenCounting) ==
    [input |-> IF Has(usageOverrides, "input")
               THEN usageOverrides.input
               ELSE countTokens(inputText, tokenCounting),
     output |-> combineTokens(<<response.content, TextOf(response, "reasoning")>>,
                              tokenCounting)]
    @@ Field(Has(usageOverrides, "reasoning") \/ TextOf(response, "reasoning") # <<>>,
             "reasoning",
             IF Has(usageOverrides, "reasoning")
             THEN usageOverrides.reasoning
             ELSE countTokens(TextOf(response, "reasoning"), tokenCounting))
    @@ Field(Has(usageOverrides, "cache_read"), "cache_read", usageOverrides.cache_read)
    @@ Field(Has(usageOverrides, "cache_creation"), "cache_creation",
             usageOverrides.cache_creation)

\* buildUsage; usageOverrides undefined is the empty object
buildUsage(response, inputText, usageOverrides, tokenCounting) ==
    [input |-> IF Has(usageOverrides, "input")
               THEN usageOverrides.input
               ELSE countTokens(inputText, tokenCounting),
     output |-> IF Has(usageOverrides, "output")
                THEN usageOverrides.output
                ELSE combineTokens(<<response.content, TextOf(response, "reasoning")>>,
                                   tokenCounting)]
    @@ Field(Has(usageOverrides, "reasoning") \/ TextOf(response, "reasoning") # <<>>,
             "reasoning",
             IF Has(usageOverrides, "reasoning")
             THEN usageOverrides.reasoning
             ELSE countTokens(TextOf(response, "reasoning"), tokenCounting))
    @@ Field(Has(usageOverrides, "cache_read"), "cache_read", usageOverrides.cache_read)
    @@ Field(Has(usageOverrides, "cache_creation"), "cache_creation",
             usageOverrides.cache_creation)

-----------------------------------------------------------------------------
(* Tool-call injection *)

\* resolveToolName(toolChoice, tools); null is << >>.  A string tool_choice
\* is [string |-> text], an object one is a record
resolveToolName(body) ==
    LET toolChoice == IF Has(body, "tool_choice") THEN body.tool_choice ELSE EmptyObject
        tools == IF Has(body, "tools") THEN body.tools
                 ELSE IF Has(body, "functions") THEN body.functions ELSE <<>>
        first == tools[1]
    IN  IF Has(toolChoice, "string") /\ toolChoice.string = <<"n", "o", "n", "e">>
        THEN <<>>
        ELSE IF Has(toolChoice, "function") /\ TextOf(toolChoice.function, "name") # <<>>
        THEN toolChoice.function.name
        ELSE IF /\ Has(toolChoice, "string")
                /\ toolChoice.string # <<>>
                /\ toolChoice.string # <<"a", "u", "t", "o">>
                /\ toolChoice.string # <<"r", "e", "q", "u", "i", "r", "e", "d">>
        THEN toolChoice.string
        ELSE IF Len(tools) > 0
        THEN IF Has(first, "function") /\ TextOf(first.function, "name") # <<>>
             THEN first.function.name
             ELSE TextOf(first, "name")
        ELSE <<>>

\* buildToolCallsFromRequest; the x-tool-result header is [json |-> value]
\* when it parses as JSON to a truthy value and [raw |-> text] otherwise
buildToolCallsFromRequest(body, headers, userInput) ==
    LET toolName == resolveToolName(body)
        forced == Has(headers, "x-tool-result") /\ Has(headers["x-tool-result"], "json")
    IN  IF toolName = <<>>
        THEN <<>>
        ELSE <<[id |-> generateId("tool"),
                name |-> toolName,
                arguments |-> IF forced
                              THEN headers["x-tool-result"].json
                              ELSE [input |-> userInput]]>>

\* normalizeToolCalls(toolCalls) of a defined list
normalizeToolCalls(toolCalls) ==
    [i \in 1..Len(toolCalls) |->
        [id |-> IF Has(toolCalls[i], "id") THEN toolCalls[i].id ELSE generateId("tool"),
         name |-> toolCalls[i].name,
         arguments |-> IF Has(toolCalls[i], "arguments") THEN toolCalls[i].arguments
                       ELSE IF Has(toolCalls[i], "args") THEN toolCalls[i].args
                       ELSE EmptyObject]]

\* the response with the calls the request asks for set over configured ones
attachToolCallsOverwriting(response, body, headers, userInput) ==
    IF buildToolCallsFromRequest(body, headers, userInput) = <<>>
    THEN response
    ELSE [key \in DOMAIN response \cup {"tool_calls"} |->
             IF key = "tool_calls"
             THEN buildToolCallsFromRequest(body, headers, userInput)
             ELSE response[key]]

\* attachToolCalls: the response with tool_calls set unless it has some
attachToolCalls(response, body, headers, userInput) ==
    IF Has(response, "tool_calls") /\ Len(response.tool_calls) > 0
    THEN response
    ELSE IF buildToolCallsFromRequest(body, headers, userInput) = <<>>
    THEN response
    ELSE ("tool_calls" :> buildToolCallsFromRequest(body, headers, userInput)) @@ response

-----------------------------------------------------------------------------
(* The files under the configuration directory: fixtures and robot scripts *)

FixturePath == <<"f", ".", "y", "m", "l">>

MissingPath == <<"n", "o", ".", "y", "m", "l">>

\* a recorded non-streaming exchange
FixtureDocument ==
    [response |-> [status |-> 200, body |-> [text |-> <<"f", "i", "x">>]],
     duration_ms |-> 0]

\* what readFileSync and the parser find at each path; other paths throw
FileSystem == (FixturePath :> FixtureDocument)

InvalidFixturePath == <<"I", "n", "v", "a", "l", "i", "d", " ", "f", "i", "x", "t", "u", "r", "e", " ", "p", "a", "t", "h", ".">>

FixtureError == <<"F", "i", "x", "t", "u", "r", "e", " ", "e", "r", "r", "o", "r">>

\* loadFixtureResponse(filePath, baseDir); filePath undefined is << >>
loadFixtureResponse(filePath, baseDir) ==
    IF filePath = <<>>
    THEN [error |-> [message |-> InvalidFixturePath]]
    ELSE IF filePath \in DOMAIN FileSystem
    THEN FileSystem[filePath]
    ELSE [threw |-> "ENOENT"]

-----------------------------------------------------------------------------
(* Behavior resolver: directives *)

DEFAULT_BEHAVIOR == <<"E", "c", "h", "o">>

ConfigPrefix == <<"c", "o", "n", "f", "i", "g", ":">>

ObjectObject == <<"[", "o", "b", "j", "e", "c", "t", " ", "O", "b", "j", "e", "c", "t", "]">>

ErrorMessage == <<"E", "r", "r", "o", "r">>

\* normalizeDirective; a bare string directive is [string |-> text]
normalizeDirective(directive) ==
    IF Has(directive, "string")
    THEN [type |-> "message", content |-> directive.string]
    ELSE directive

UsageOf(resolved) == IF Has(resolved, "usage") THEN resolved.usage ELSE EmptyObject

\* the canonical result of a directive: response, then tool calls, then usage
CanonicalResult(response, usageOverrides, cfg, inputText, lastUserMessage, requestBody, headers, behaviorName) ==
    LET attached == attachToolCalls(response, requestBody, headers,
                                    OrText(lastUserMessage, inputText))
    IN  [mode |-> "canonical",
         response |-> ("usage" :> buildUsage(attached, inputText, usageOverrides,
                                             cfg.tokenCounting)) @@ attached,
         behavior |-> behaviorName]

buildDirectiveResponse(cfg, directive, inputText, lastUserMessage, requestBody, headers, behaviorName) ==
    LET resolved == normalizeDirective(directive)
        type == IF Has(resolved, "type") THEN resolved.type ELSE "undefined"
    IN  IF type = "file"
        THEN IF Has(loadFixtureResponse(TextOf(resolved, "path"), cfg.configDir), "threw")
             THEN loadFixtureResponse(TextOf(resolved, "path"), cfg.configDir)
             ELSE [mode |-> "file",
                   file |-> loadFixtureResponse(TextOf(resolved, "path"), cfg.configDir),
                   behavior |-> behaviorName]
        ELSE IF type = "error"
        THEN [mode |-> "error",
              error |-> [status |-> IF Has(resolved, "status") /\ resolved.status # 0
                                    THEN resolved.status ELSE 500,
                         message |-> OrText(TextOf(resolved, "message"), ErrorMessage)],
              behavior |-> behaviorName]
        ELSE IF type = "echo"
        THEN CanonicalResult([content |-> OrText(lastUserMessage, inputText)],
                             UsageOf(resolved), cfg, inputText, lastUserMessage,
                             requestBody, headers, behaviorName)
        ELSE IF type = "message"
        THEN CanonicalResult(
                 [content |-> TextOf(resolved, "content")]
                 @@ Field(Has(resolved, "reasoning"), "reasoning", resolved.reasoning)
                 @@ Field(Has(resolved, "tool_calls"), "tool_calls",
                          normalizeToolCalls(resolved.tool_calls)),
                 UsageOf(resolved), cfg, inputText, lastUserMessage,
                 requestBody, headers, behaviorName)
        ELSE CanonicalResult(
                 [content |-> IF Has(resolved, "content") THEN resolved.content
                              ELSE ObjectObject],
                 UsageOf(resolved), cfg, inputText, lastUserMessage,
                 requestBody, headers, behaviorName)

-----------------------------------------------------------------------------
(* Behavior resolver: built-in behaviors *)

BUILTIN_BEHAVIORS == {<<"e", "c", "h", "o">>, <<"r", "o", "b", "o", "t">>, <<"w", "e", "i", "r", "d", "o">>, <<"t", "h", "i", "n", "k", "e", "r">>}

WeirdoContent ==
    <<"a", "s", "d", "k", "j", "h", "a", "s", "d", " ", "k", "a", "j", "s", "h", "d", " ", "a", "k", "s", "j", "d", "h", " ", "a", "s", "d", "k", "j", "h", "a", "s", "d", " ", "k", "a", "j", "s", "h", "d", " ", "a", "k", "s", "j", "d", "h">>

WeirdoOutput == 999999

ThinkerContent ==
    <<"H", "e", "r", "e", " ", "i", "s", " ", "m", "y", " ", "t", "h", "o", "u", "g", "h", "t", "f", "u", "l", " ", "r", "e", "s", "p", "o", "n", "s", "e", ".">>

ThinkerReasoning ==
    <<"T", "h", "i", "n", "k", "i", "n", "g", " ", "t", "h", "r", "o", "u", "g", "h", " ", "t", "h", "e", " ", "p", "r", "o", "b", "l", "e", "m", " ", "i", "n", " ", "a", " ", "c", "o", "n", "c", "i", "s", "e", " ", "s", "u", "m", "m", "a", "r", "y", ".">>

RegexFlags == {"d", "g", "i", "m", "s", "u", "v", "y"}

\* the characters that the pattern bodies of the model treat as syntax
RegexSyntax == {"(", ")", "[", "]", "*", "+", "?", "\\", "|", "^", "$", ".", "{", "}"}

LastSlash(pattern) ==
    CHOOSE i \in 1..Len(pattern) :
        /\ pattern[i] = "/"
        /\ \A j \in (i + 1)..Len(pattern) : pattern[j] # "/"

Contains(text, part) ==
    \E i \in 0..(Len(text) - Len(part)) : SubSeq(text, i + 1, i + Len(part)) = part

\* isRegexMatch for patterns whose body is a literal text: new RegExp throws
\* on an unknown or repeated flag and on a body with unbalanced syntax, which
\* is every body with a syntax character here
isRegexMatch(pattern, userInput) ==
    IF pattern = <<>> \/ pattern[1] # "/" \/ LastSlash(pattern) = 1
    THEN FALSE
    ELSE LET body == SubSeq(pattern, 2, LastSlash(pattern) - 1)
             flags == SubSeq(pattern, LastSlash(pattern) + 1, Len(pattern))
             valid == /\ \A i \in 1..Len(flags) : flags[i] \in RegexFlags
                      /\ \A i, j \in 1..Len(flags) : flags[i] = flags[j] => i = j
                      /\ \A i \in 1..Len(body) : body[i] \notin RegexSyntax
                      /\ body # <<>>
         IN  /\ valid
             /\ IF \E i \in 1..Len(flags) : flags[i] = "i"
                THEN Contains(ToLowerCase(userInput), ToLowerCase(body))
                ELSE Contains(userInput, body)

RuleMatches(rule, userInput) ==
    /\ TextOf(rule, "match") # <<>>
    /\ (isRegexMatch(rule.match, userInput) \/ rule.match = userInput)

\* matchRobotScript where the last matching rule answers
matchRobotScriptLastRule(script, userInput) ==
    IF ~Has(script, "rules")
    THEN OrText(TextOf(script, "fallback"), userInput)
    ELSE LET hits == {i \in 1..Len(script.rules) : RuleMatches(script.rules[i], userInput)}
             last == CHOOSE i \in hits : \A j \in hits : j <= i
         IN  IF hits = {}
             THEN TextOf(script, "fallback")
             ELSE IF Has(script.rules[last], "response")
             THEN script.rules[last].response
             ELSE TextOf(script, "fallback")

\* matchRobotScript(script, userInput); a null script is the empty object
matchRobotScript(script, userInput) ==
    IF ~Has(script, "rules")
    THEN OrText(TextOf(script, "fallback"), userInput)
    ELSE LET hits == {i \in 1..Len(script.rules) : RuleMatches(script.rules[i], userInput)}
             first == CHOOSE i \in hits : \A j \in hits : i <= j
         IN  IF hits = {}
             THEN TextOf(script, "fallback")
             ELSE IF Has(script.rules[first], "response")
             THEN script.rules[first].response
             ELSE TextOf(script, "fallback")

\* resolveRobotScript; behaviorEntry undefined is the empty object
resolveRobotScript(behaviorEntry, cfg) ==
    IF Has(behaviorEntry, "rules")
    THEN behaviorEntry
    ELSE LET scriptPath == OrText(TextOf(behaviorEntry, "script"), cfg.robotScript)
         IN  IF scriptPath = <<>>
             THEN EmptyObject
             ELSE IF scriptPath \in DOMAIN FileSystem
             THEN FileSystem[scriptPath]
             ELSE [threw |-> "ENOENT"]

buildBehaviorResponse(cfg, behavior, inputText, lastUserMessage, requestBody, headers, behaviorEntry) ==
    LET normalized == Trim(OrText(behavior, OrText(cfg.defaultBehavior, DEFAULT_BEHAVIOR)))
        behaviorKey == ToLowerCase(normalized)
        userInput == OrText(lastUserMessage, inputText)
    IN  IF behaviorKey = <<"r", "o", "b", "o", "t">>
        THEN IF Has(resolveRobotScript(behaviorEntry, cfg), "threw")
             THEN resolveRobotScript(behaviorEntry, cfg)
             ELSE CanonicalResult(
                      [content |-> matchRobotScript(resolveRobotScript(behaviorEntry, cfg),
                                                    userInput)],
                      EmptyObject, cfg, inputText, lastUserMessage,
                      requestBody, headers, normalized)
        ELSE IF behaviorKey = <<"w", "e", "i", "r", "d", "o">>
        THEN CanonicalResult([content |-> WeirdoContent], [output |-> WeirdoOutput],
                             cfg, inputText, lastUserMessage, requestBody, headers,
                             normalized)
        ELSE IF behaviorKey = <<"t", "h", "i", "n", "k", "e", "r">>
        THEN CanonicalResult([content |-> ThinkerContent, reasoning |-> ThinkerReasoning],
                             EmptyObject, cfg, inputText, lastUserMessage,
                             requestBody, headers, normalized)
        ELSE CanonicalResult([content |-> userInput], EmptyObject, cfg, inputText,
                             lastUserMessage, requestBody, headers, normalized)

-----------------------------------------------------------------------------
(* Translator: usage mappings *)

UsageInput(usage) == IF Has(usage, "input") THEN usage.input ELSE 0

UsageOutput(usage) == IF Has(usage, "output") THEN usage.output ELSE 0

\* a mapping that always reports the reasoning detail
mapUsageToOpenAIChatInventing(usage) ==
    [prompt_tokens |-> UsageInput(usage),
     completion_tokens |-> UsageOutput(usage),
     total_tokens |-> UsageInput(usage) + UsageOutput(usage),
     completion_tokens_details |->
        [reasoning_tokens |-> IF Has(usage, "reasoning") THEN usage.reasoning ELSE 0]]
    @@ Field(Has(usage, "cache_read"), "prompt_tokens_details",
             [cached_tokens |-> usage.cache_read])

mapUsageToOpenAIChat(usage) ==
    [prompt_tokens |-> UsageInput(usage),
     completion_tokens |-> UsageOutput(usage),
     total_tokens |-> UsageInput(usage) + UsageOutput(usage)]
    @@ Field(Has(usage, "cache_read"), "prompt_tokens_details",
             [cached_tokens |-> usage.cache_read])
    @@ Field(Has(usage, "reasoning"), "completion_tokens_details",
             [reasoning_tokens |-> usage.reasoning])

mapUsageToOpenAIResponses(usage) ==
    [input_tokens |-> UsageInput(usage),
     output_tokens |-> UsageOutput(usage),
     total_tokens |-> UsageInput(usage) + UsageOutput(usage)]
    @@ Field(Has(usage, "cache_read"), "input_tokens_details",
             [cached_tokens |-> usage.cache_read])
    @@ Field(Has(usage, "reasoning"), "output_tokens_details",
             [reasoning_tokens |-> usage.reasoning])

mapUsageToAnthropic(usage) ==
    [input_tokens |-> UsageInput(usage),
     output_tokens |-> UsageOutput(usage)]
    @@ Field(Has(usage, "cache_read"), "cache_read_input_tokens", usage.cache_read)
    @@ Field(Has(usage, "cache_creation"), "cache_creation_input_tokens",
             usage.cache_creation)

mapUsageToGemini(usage) ==
    [promptTokenCount |-> UsageInput(usage),
     candidatesTokenCount |-> UsageOutput(usage),
     totalTokenCount |-> UsageInput(usage) + UsageOutput(usage)]
    @@ Field(Has(usage, "cache_read"), "cachedContentTokenCount", usage.cache_read)

-----------------------------------------------------------------------------
(* Translator: response objects and stream event lists *)

\* JSON.stringify(value): a string, kept as the value it serializes
JSONstringify(value) == [json |-> value]

\* nowSeconds()
nowSeconds == "now"

\* the literal data of the last OpenAI chat stream event
DONE == [literal |-> "[DONE]"]

CallArguments(call) == IF Has(call, "arguments") THEN call.arguments ELSE EmptyObject

toOpenAIToolCalls(toolCalls) ==
    [i \in 1..Len(toolCalls) |->
        [id |-> IF Has(toolCalls[i], "id") THEN toolCalls[i].id ELSE generateId("call"),
         type |-> "function",
         function |-> [name |-> toolCalls[i].name,
                       arguments |-> JSONstringify(CallArguments(toolCalls[i]))]]]

HasReasoning(response) == TextOf(response, "reasoning") # <<>>

HasToolCalls(response) == Has(response, "tool_calls") /\ Len(response.tool_calls) > 0

buildOpenAIChatResponse(response, model) ==
    [id |-> generateId("chatcmpl"),
     object |-> "chat.completion",
     created |-> nowSeconds,
     model |-> model,
     choices |-> <<[index |-> 0,
                    message |-> [role |-> "assistant", content |-> response.content]
                                @@ Field(HasReasoning(response), "reasoning_content",
                                         response.reasoning)
                                @@ Field(Has(response, "tool_calls"), "tool_calls",
                                         toOpenAIToolCalls(response.tool_calls)),
                    finish_reason |-> "stop"]>>,
     usage |-> mapUsageToOpenAIChat(response.usage)]

ChatChunk(model, choices) ==
    [id |-> generateId("chatcmpl"),
     object |-> "chat.completion.chunk",
     created |-> nowSeconds,
     model |-> model,
     choices |-> choices]

\* the event list with the usage chunk whatever includeUsage is
buildOpenAIChatStreamEventsAlwaysUsage(response, model, includeUsage) ==
    <<[data |-> ChatChunk(model,
                   <<[index |-> 0,
                      delta |-> [role |-> "assistant"]
                                @@ Field(response.content # <<>>, "content", response.content)
                                @@ Field(HasReasoning(response), "reasoning_content",
                                         response.reasoning)
                                @@ Field(Has(response, "tool_calls"), "tool_calls",
                                         toOpenAIToolCalls(response.tool_calls)),
                      finish_reason |-> Null]>>)],
      [data |-> ChatChunk(model,
                   <<[index |-> 0, delta |-> EmptyObject, finish_reason |-> [string |-> "stop"]]>>)],
      [data |-> ("usage" :> mapUsageToOpenAIChat(response.usage)) @@ ChatChunk(model, <<>>)],
      [data |-> DONE]>>

\* the event list with the usage chunk after the [DONE] sentinel
buildOpenAIChatStreamEventsUsageLast(response, model, includeUsage) ==
    <<[data |-> ChatChunk(model,
                   <<[index |-> 0,
                      delta |-> [role |-> "assistant"]
                                @@ Field(response.content # <<>>, "content", response.content)
                                @@ Field(HasReasoning(response), "reasoning_content",
                                         response.reasoning)
                                @@ Field(Has(response, "tool_calls"), "tool_calls",
                                         toOpenAIToolCalls(response.tool_calls)),
                      finish_reason |-> Null]>>)],
      [data |-> ChatChunk(model,
                   <<[index |-> 0, delta |-> EmptyObject, finish_reason |-> [string |-> "stop"]]>>)],
      [data |-> DONE]>>
    \o (IF includeUsage
        THEN <<[data |-> ("usage" :> mapUsageToOpenAIChat(response.usage))
                         @@ ChatChunk(model, <<>>)]>>
        ELSE <<>>)

buildOpenAIChatStreamEvents(response, model, includeUsage) ==
    <<[data |-> ChatChunk(model,
                   <<[index |-> 0,
                      delta |-> [role |-> "assistant"]
                                @@ Field(response.content # <<>>, "content", response.content)
                                @@ Field(HasReasoning(response), "reasoning_content",
                                         response.reasoning)
                                @@ Field(Has(response, "tool_calls"), "tool_calls",
                                         toOpenAIToolCalls(response.tool_calls)),
                      finish_reason |-> Null]>>)],
      [data |-> ChatChunk(model,
                   <<[index |-> 0, delta |-> EmptyObject, finish_reason |-> [string |-> "stop"]]>>)]>>
    \o (IF includeUsage
        THEN <<[data |-> ("usage" :> mapUsageToOpenAIChat(response.usage))
                         @@ ChatChunk(model, <<>>)]>>
        ELSE <<>>)
    \o <<[data |-> DONE]>>

buildOpenAICompletionResponse(text, model, usage) ==
    [id |-> generateId("cmpl"),
     object |-> "text_completion",
     created |-> nowSeconds,
     model |-> model,
     choices |-> <<[index |-> 0, text |-> text, finish_reason |-> "stop"]>>,
     usage |-> mapUsageToOpenAIChat(usage)]

ResponsesToolCalls(response) ==
    IF HasToolCalls(response)
    THEN [i \in 1..Len(response.tool_calls) |->
             [type |-> "tool_call",
              id |-> response.tool_calls[i].id,
              name |-> response.tool_calls[i].name,
              arguments |-> JSONstringify(CallArguments(response.tool_calls[i]))]]
    ELSE <<>>

buildOpenAIResponsesResponse(response, model) ==
    [id |-> generateId("resp"),
     object |-> "response",
     created |-> nowSeconds,
     model |-> model,
     status |-> "completed",
     output |-> <<[type |-> "message",
                   role |-> "assistant",
                   content |-> <<[type |-> "output_text", text |-> response.content]>>]>>
                \o ResponsesToolCalls(response),
     usage |-> mapUsageToOpenAIResponses(response.usage)]

buildOpenAIResponsesEvents(response, model) ==
    (IF response.content # <<>>
     THEN <<[data |-> [type |-> "response.output_text.delta", delta |-> response.content]]>>
     ELSE <<>>)
    \o <<[data |-> ("type" :> "response.completed")
                   @@ buildOpenAIResponsesResponse(response, model)]>>

AnthropicToolUse(response) ==
    IF HasToolCalls(response)
    THEN [i \in 1..Len(response.tool_calls) |->
             [type |-> "tool_use",
              id |-> response.tool_calls[i].id,
              name |-> response.tool_calls[i].name,
              input |-> CallArguments(response.tool_calls[i])]]
    ELSE <<>>

buildAnthropicMessageResponse(response, model) ==
    [id |-> generateId("msg"),
     type |-> "message",
     role |-> "assistant",
     model |-> model,
     content |-> (IF response.content # <<>>
                  THEN <<[type |-> "text", text |-> response.content]>> ELSE <<>>)
                 \o (IF HasReasoning(response)
                     THEN <<[type |-> "thinking", thinking |-> response.reasoning]>>
                     ELSE <<>>)
                 \o AnthropicToolUse(response),
     stop_reason |-> "end_turn",
     usage |-> mapUsageToAnthropic(response.usage)]

\* the event list with the whole mapped usage already in message_start
buildAnthropicStreamEventsEarlyUsage(response, model) ==
    <<[event |-> "message_start",
       data |-> [type |-> "message_start",
                 message |-> [id |-> generateId("msg"),
                              type |-> "message",
                              role |-> "assistant",
                              model |-> model,
                              content |-> <<>>,
                              usage |-> mapUsageToAnthropic(response.usage)]]],
      [event |-> "content_block_start",
       data |-> [type |-> "content_block_start",
                 index |-> 0,
                 content_block |-> [type |-> "text", text |-> <<>>]]],
      [event |-> "content_block_delta",
       data |-> [type |-> "content_block_delta",
                 index |-> 0,
                 delta |-> [type |-> "text_delta", text |-> response.content]]],
      [event |-> "content_block_stop",
       data |-> [type |-> "content_block_stop", index |-> 0]],
      [event |-> "message_delta",
       data |-> [type |-> "message_delta",
                 delta |-> [stop_reason |-> "end_turn"],
                 usage |-> mapUsageToAnthropic(response.usage)]],
      [event |-> "message_stop", data |-> [type |-> "message_stop"]]>>

buildAnthropicStreamEvents(response, model) ==
    <<[event |-> "message_start",
       data |-> [type |-> "message_start",
                 message |-> [id |-> generateId("msg"),
                              type |-> "message",
                              role |-> "assistant",
                              model |-> model,
                              content |-> <<>>,
                              usage |-> [input_tokens |->
                                            mapUsageToAnthropic(response.usage).input_tokens]]]],
      [event |-> "content_block_start",
       data |-> [type |-> "content_block_start",
                 index |-> 0,
                 content_block |-> [type |-> "text", text |-> <<>>]]],
      [event |-> "content_block_delta",
       data |-> [type |-> "content_block_delta",
                 index |-> 0,
                 delta |-> [type |-> "text_delta", text |-> response.content]]],
      [event |-> "content_block_stop",
       data |-> [type |-> "content_block_stop", index |-> 0]],
      [event |-> "message_delta",
       data |-> [type |-> "message_delta",
                 delta |-> [stop_reason |-> "end_turn"],
                 usage |-> mapUsageToAnthropic(response.usage)]],
      [event |-> "message_stop", data |-> [type |-> "message_stop"]]>>

GeminiFunctionCalls(response) ==
    IF HasToolCalls(response)
    THEN [i \in 1..Len(response.tool_calls) |->
             [functionCall |-> [name |-> response.tool_calls[i].name,
                                args |-> CallArguments(response.tool_calls[i])]]]
    ELSE <<>>

buildGeminiGenerateResponse(response, model) ==
    [candidates |-> <<[content |-> [role |-> "model",
                                    parts |-> (IF response.content # <<>>
                                               THEN <<[text |-> response.content]>>
                                               ELSE <<>>)
                                              \o GeminiFunctionCalls(response)],
                       finishReason |-> "STOP"]>>,
     usageMetadata |-> mapUsageToGemini(response.usage)]

buildGeminiStreamChunks(response, model) ==
    <<buildGeminiGenerateResponse(response, model)>>

-----------------------------------------------------------------------------
(* Request handlers: model checks, resolveResponse, the answer *)

Registry == config.modelRegistry

\* a request: the endpoint, the model (body.model, or params.model for
\* Gemini), the body, the headers and the texts the extraction yields
Request(endpoint, model, body, headers, lastUser, allText) ==
    [endpoint |-> endpoint, model |-> model, body |-> body, headers |-> headers,
     lastUser |-> lastUser, allText |-> allText]

ProviderOf(endpoint) ==
    IF endpoint = "anthropic" THEN "anthropic"
    ELSE IF endpoint \in {"gemini", "geminiStream"} THEN "gemini"
    ELSE "openai"

ConfiguredNames == DOMAIN Registry.triggerModels \cup DOMAIN Registry.behaviorModels

\* resolveModelName(model, config)
resolveModelName(model) ==
    IF model = <<>> \/ model \in ConfiguredNames
    THEN model
    ELSE IF \E name \in DOMAIN Registry.triggerModels : ToLowerCase(name) = ToLowerCase(model)
    THEN CHOOSE name \in DOMAIN Registry.triggerModels : ToLowerCase(name) = ToLowerCase(model)
    ELSE IF \E name \in DOMAIN Registry.behaviorModels : ToLowerCase(name) = ToLowerCase(model)
    THEN CHOOSE name \in DOMAIN Registry.behaviorModels : ToLowerCase(name) = ToLowerCase(model)
    ELSE model

\* shouldRejectModel(model, config)
shouldRejectModel(model) ==
    /\ ConfiguredNames # {}
    /\ model \notin ConfiguredNames

UnknownModel == <<"U", "n", "k", "n", "o", "w", "n", " ", "m", "o", "d", "e", "l">>

MissingModel == <<"M", "i", "s", "s", "i", "n", "g", " ", "m", "o", "d", "e", "l">>

\* sendError(res, provider, status, message, param, code)
sendError(provider, status, message) ==
    [status |-> status,
     body |-> IF provider = "anthropic"
              THEN [type |-> "error",
                    error |-> [type |-> "invalid_request_error", message |-> message]]
              ELSE IF provider = "gemini"
              THEN [error |-> [code |-> status, message |-> message,
                               status |-> "INVALID_ARGUMENT"]]
              ELSE [error |-> [message |-> message, type |-> "invalid_request_error"]]]

Idle ==
    /\ req = Null
    /\ pc = "idle"
    /\ modelName = <<>>
    /\ userMessage = <<>>
    /\ current = <<>>
    /\ visited = {}
    /\ fallback = Null
    /\ triggerMatch = Null
    /\ result = Null
    /\ out = Null
    /\ sse = Null
    /\ fileStore = [files |-> EmptyObject, issued |-> {}]
    /\ daemon = Null

\* a request reaches its handler
Receive(requests) ==
    /\ pc = "idle"
    /\ \E r \in requests : req' = r
    /\ pc' = "received"
    /\ UNCHANGED <<daemon, fileStore, sse, config, modelName, userMessage, current, visited, fallback,
                   triggerMatch, result, out>>

MissingApiKey == <<"M", "i", "s", "s", "i", "n", "g", " ", "A", "P", "I", " ", "k", "e", "y">>

\* the authorization middleware lets the request through
Authorized ==
    \/ ~(Has(config, "requireAuth") /\ config.requireAuth)
    \/ TextOf(req.headers, "authorization") # <<>>
    \/ TextOf(req.headers, "x-api-key") # <<>>

\* the middleware answers 401, in the OpenAI envelope on every route
RejectMissingKey ==
    /\ pc = "received"
    /\ ~Authorized
    /\ out' = sendError("openai", 401, MissingApiKey)
    /\ pc' = "sent"
    /\ UNCHANGED <<daemon, fileStore, sse, config, req, modelName, userMessage, current, visited, fallback,
                   triggerMatch, result>>

\* OPENAI_CHAT_FIELDS, OPENAI_RESPONSES_FIELDS, ANTHROPIC_MESSAGE_FIELDS and
\* GEMINI_GENERATE_FIELDS
AllowedFields(endpoint) ==
    IF endpoint = "chat"
    THEN {"model", "messages", "temperature", "max_tokens", "stream", "stream_options",
          "seed", "tools", "tool_choice", "functions", "function_call", "top_p", "n", "stop"}
    ELSE IF endpoint = "responses"
    THEN {"model", "input", "stream", "stream_options", "temperature",
          "max_output_tokens", "tools", "tool_choice", "seed"}
    ELSE IF endpoint = "anthropic"
    THEN {"model", "messages", "max_tokens", "stream", "temperature", "tools",
          "tool_choice", "system", "metadata"}
    ELSE {"contents", "generationConfig", "safetySettings", "tools", "toolConfig"}

\* validateBody: the keys of the body that are not allowed, under strict
\* validation
UnknownFields ==
    IF Has(config, "strictValidation") /\ config.strictValidation
    THEN DOMAIN req.body \ AllowedFields(req.endpoint)
    ELSE {}

\* if (!validateBody(body, FIELDS, res, provider, config)) return
RejectInvalidBody ==
    /\ pc = "received"
    /\ Authorized
    /\ UnknownFields # {}
    /\ out' = sendError(ProviderOf(req.endpoint), 400, [unknownFields |-> UnknownFields])
    /\ pc' = "sent"
    /\ UNCHANGED <<daemon, fileStore, sse, config, req, modelName, userMessage, current, visited, fallback,
                   triggerMatch, result>>

BodyChecked ==
    /\ pc = "received"
    /\ Authorized
    /\ UnknownFields = {}

\* if (!body.model) return sendError(res, provider, 400, 'Missing model')
RejectMissingModel ==
    /\ BodyChecked
    /\ ProviderOf(req.endpoint) # "gemini"
    /\ req.model = <<>>
    /\ out' = sendError(ProviderOf(req.endpoint), 400, MissingModel)
    /\ pc' = "sent"
    /\ UNCHANGED <<daemon, fileStore, sse, config, req, modelName, userMessage, current, visited, fallback,
                   triggerMatch, result>>

ModelChecked ==
    /\ BodyChecked
    /\ (ProviderOf(req.endpoint) # "gemini" => req.model # <<>>)

\* if (shouldRejectModel(resolvedModel, config)) return sendError(..., 404, ...)
RejectUnknownModel ==
    /\ ModelChecked
    /\ shouldRejectModel(resolveModelName(req.model))
    /\ out' = sendError(ProviderOf(req.endpoint), 404, UnknownModel)
    /\ pc' = "sent"
    /\ UNCHANGED <<daemon, fileStore, sse, config, req, modelName, userMessage, current, visited, fallback,
                   triggerMatch, result>>

Digits == <<"0", "1", "2", "3", "4", "5", "6", "7", "8", "9">>

IsDigit(c) == \E d \in 1..Len(Digits) : Digits[d] = c

DigitValue(c) == (CHOOSE d \in 1..Len(Digits) : Digits[d] = c) - 1

RECURSIVE DigitsValue(_, _)
\* the number the leading digits of the text write, after those read so far
DigitsValue(text, read) ==
    IF text = <<>> \/ ~IsDigit(Head(text))
    THEN read
    ELSE DigitsValue(Tail(text), 10 * read + DigitValue(Head(text)))

\* parseInteger(value, fallback) of a string: Number.parseInt reads the
\* leading digits; the fallback when there is none
parseInteger(value, otherwise) ==
    IF value = <<>> \/ ~IsDigit(Head(value))
    THEN otherwise
    ELSE DigitsValue(value, 0)

SimulatedErrorPrefix == <<"S", "i", "m", "u", "l", "a", "t", "e", "d", " ", "e", "r", "r", "o", "r", " ", "(">>

\* getSimulatedError(req, config, body) for a string directive in the
\* x-error header or in body.simulate_error, with config.errorRate 0; null
\* when there is none
getSimulatedError ==
    LET directive == OrText(TextOf(req.headers, "x-error"),
                            TextOf(req.body, "simulate_error"))
    IN  IF directive = <<>>
        THEN Null
        ELSE [status |-> IF parseInteger(directive, 0) # 0
                         THEN parseInteger(directive, 0) ELSE 400,
              message |-> SimulatedErrorPrefix \o directive \o <<")">>]

\* if (simulated) return sendError(res, provider, simulated.status, ...)
RespondSimulatedError ==
    /\ ModelChecked
    /\ ~shouldRejectModel(resolveModelName(req.model))
    /\ getSimulatedError # Null
    /\ out' = sendError(ProviderOf(req.endpoint), getSimulatedError.status,
                        getSimulatedError.message)
    /\ pc' = "sent"
    /\ UNCHANGED <<daemon, fileStore, sse, config, req, modelName, userMessage, current, visited, fallback,
                   triggerMatch, result>>

HeaderBehavior == TextOf(req.headers, "x-behavior")

\* resolveResponse, step 1: the x-behavior header
ResolveHeaderBehavior ==
    /\ ModelChecked
    /\ ~shouldRejectModel(resolveModelName(req.model))
    /\ getSimulatedError = Null
    /\ HeaderBehavior # <<>>
    /\ result' = buildBehaviorResponse(config, Trim(HeaderBehavior), req.allText,
                                       req.lastUser, req.body, req.headers, EmptyObject)
    /\ pc' = "resolved"
    /\ UNCHANGED <<daemon, fileStore, sse, config, req, modelName, userMessage, current, visited, fallback,
                   triggerMatch, out>>

\* trigger resolution called whatever the x-behavior header says
CallTriggerResolutionBeforeHeader ==
    /\ ModelChecked
    /\ ~shouldRejectModel(resolveModelName(req.model))
    /\ getSimulatedError = Null
    /\ StartWalk(resolveModelName(req.model), req.lastUser)
    /\ UNCHANGED <<daemon, fileStore, sse, config, req, result, out>>

\* resolveResponse, step 2: resolveTriggerResponse is called
CallTriggerResolution ==
    /\ ModelChecked
    /\ ~shouldRejectModel(resolveModelName(req.model))
    /\ getSimulatedError = Null
    /\ HeaderBehavior = <<>>
    /\ StartWalk(resolveModelName(req.model), req.lastUser)
    /\ UNCHANGED <<daemon, fileStore, sse, config, req, result, out>>

\* resolveResponse, step 2: the trigger walk found a directive
ResolveDirective ==
    /\ pc = "walked"
    /\ req # Null
    /\ triggerMatch # Null
    /\ result' = buildDirectiveResponse(config, triggerMatch.response, req.allText,
                                        req.lastUser, req.body, req.headers,
                                        ConfigPrefix \o triggerMatch.model)
    /\ pc' = "resolved"
    /\ UNCHANGED <<daemon, fileStore, sse, config, req, modelName, userMessage, current, visited, fallback,
                   triggerMatch, out>>

\* resolveResponse, step 3: the model is a behavior model
ResolveBehaviorModel ==
    /\ pc = "walked"
    /\ req # Null
    /\ triggerMatch = Null
    /\ modelName \in DOMAIN Registry.behaviorModels
    /\ result' = buildBehaviorResponse(
                     config,
                     OrText(TextOf(Registry.behaviorModels[modelName], "behavior"), modelName),
                     req.allText, req.lastUser, req.body, req.headers,
                     Registry.behaviorModels[modelName])
    /\ pc' = "resolved"
    /\ UNCHANGED <<daemon, fileStore, sse, config, req, modelName, userMessage, current, visited, fallback,
                   triggerMatch, out>>

\* resolveResponse, step 4: the model name is a built-in behavior name
ResolveBuiltinName ==
    /\ pc = "walked"
    /\ req # Null
    /\ triggerMatch = Null
    /\ modelName \notin DOMAIN Registry.behaviorModels
    /\ ToLowerCase(modelName) \in BUILTIN_BEHAVIORS
    /\ result' = buildBehaviorResponse(config, modelName, req.allText, req.lastUser,
                                       req.body, req.headers, EmptyObject)
    /\ pc' = "resolved"
    /\ UNCHANGED <<daemon, fileStore, sse, config, req, modelName, userMessage, current, visited, fallback,
                   triggerMatch, out>>

\* resolveResponse, step 5: the configured default behavior
ResolveDefaultBehavior ==
    /\ pc = "walked"
    /\ req # Null
    /\ triggerMatch = Null
    /\ modelName \notin DOMAIN Registry.behaviorModels
    /\ ToLowerCase(modelName) \notin BUILTIN_BEHAVIORS
    /\ result' = buildBehaviorResponse(config, config.defaultBehavior, req.allText,
                                       req.lastUser, req.body, req.headers, EmptyObject)
    /\ pc' = "resolved"
    /\ UNCHANGED <<daemon, fileStore, sse, config, req, modelName, userMessage, current, visited, fallback,
                   triggerMatch, out>>

\* resolveResponse threw (a fixture or script that cannot be read): no
\* handler and no route catches, so the promise of the route rejects.  What
\* the client gets depends on the router below: nothing at all, or the
\* router's own 500 page with the error's stack
HandlerRejects ==
    /\ pc = "resolved"
    /\ Has(result, "threw")
    /\ out' \in {[unhandled |-> result.threw],
                 [status |-> 500, stack |-> result.threw]}
    /\ pc' = "sent"
    /\ UNCHANGED <<daemon, fileStore, sse, config, req, modelName, userMessage, current, visited, fallback,
                   triggerMatch, result>>

Resolved(mode) ==
    /\ pc = "resolved"
    /\ ~Has(result, "threw")
    /\ result.mode = mode

\* handleRecordedResponse for a non-streaming fixture document
RespondRecorded ==
    /\ Resolved("file")
    /\ out' = IF Has(result.file, "error")
              THEN sendError("openai", 500,
                             OrText(TextOf(result.file.error, "message"), FixtureError))
              ELSE [status |-> result.file.response.status,
                    body |-> result.file.response.body]
    /\ pc' = "sent"
    /\ UNCHANGED <<daemon, fileStore, sse, config, req, modelName, userMessage, current, visited, fallback,
                   triggerMatch, result>>

\* if (result.mode === 'error') return sendError(res, provider, status, message)
RespondError ==
    /\ Resolved("error")
    /\ out' = sendError(ProviderOf(req.endpoint), result.error.status, result.error.message)
    /\ pc' = "sent"
    /\ UNCHANGED <<daemon, fileStore, sse, config, req, modelName, userMessage, current, visited, fallback,
                   triggerMatch, result>>

IsStream == Has(req.body, "stream") /\ req.body.stream = TRUE

\* const includeUsage = body.stream_options?.include_usage === true
IncludeUsage ==
    /\ Has(req.body, "stream_options")
    /\ Has(req.body.stream_options, "include_usage")
    /\ req.body.stream_options.include_usage = TRUE

Stream(builder, events, includeEvent) ==
    [status |-> 200, builder |-> builder, events |-> events, includeEvent |-> includeEvent]

Json(builder, body) == [status |-> 200, builder |-> builder, body |-> body]

\* the streamed answers of handleOpenAIChat, handleOpenAIResponses,
\* handleAnthropicMessages and handleGeminiStream
RespondStream ==
    /\ Resolved("canonical")
    /\ \/ /\ req.endpoint = "chat" /\ IsStream
          /\ out' = Stream("buildOpenAIChatStreamEvents",
                           buildOpenAIChatStreamEvents(result.response, req.model,
                                                       IncludeUsage),
                           FALSE)
       \/ /\ req.endpoint = "responses" /\ IsStream
          /\ out' = Stream("buildOpenAIResponsesEvents",
                           buildOpenAIResponsesEvents(result.response, req.model), FALSE)
       \/ /\ req.endpoint = "anthropic" /\ IsStream
          /\ out' = Stream("buildAnthropicStreamEvents",
                           buildAnthropicStreamEvents(result.response, req.model), TRUE)
       \/ /\ req.endpoint = "geminiStream"
          /\ out' = Stream("buildGeminiStreamChunks",
                           [i \in 1..Len(buildGeminiStreamChunks(result.response, req.model)) |->
                               [data |-> buildGeminiStreamChunks(result.response, req.model)[i]]],
                           FALSE)
    /\ pc' = "sent"
    /\ UNCHANGED <<daemon, fileStore, sse, config, req, modelName, userMessage, current, visited, fallback,
                   triggerMatch, result>>

\* the res.json answers of the same handlers and of handleGeminiGenerate
RespondJson ==
    /\ Resolved("canonical")
    /\ \/ /\ req.endpoint = "chat" /\ ~IsStream
          /\ out' = Json("buildOpenAIChatResponse",
                         buildOpenAIChatResponse(result.response, req.model))
       \/ /\ req.endpoint = "responses" /\ ~IsStream
          /\ out' = Json("buildOpenAIResponsesResponse",
                         buildOpenAIResponsesResponse(result.response, req.model))
       \/ /\ req.endpoint = "anthropic" /\ ~IsStream
          /\ out' = Json("buildAnthropicMessageResponse",
                         buildAnthropicMessageResponse(result.response, req.model))
       \/ /\ req.endpoint = "gemini"
          /\ out' = Json("buildGeminiGenerateResponse",
                         buildGeminiGenerateResponse(result.response, req.model))
    /\ pc' = "sent"
    /\ UNCHANGED <<daemon, fileStore, sse, config, req, modelName, userMessage, current, visited, fallback,
                   triggerMatch, result>>

\* the request is over: nothing of it is kept
Finish ==
    /\ pc = "sent"
    /\ req' = Null
    /\ pc' = "idle"
    /\ modelName' = <<>>
    /\ userMessage' = <<>>
    /\ current' = <<>>
    /\ visited' = {}
    /\ fallback' = Null
    /\ triggerMatch' = Null
    /\ result' = Null
    /\ out' = Null
    /\ UNCHANGED <<daemon, fileStore, sse, config>>

Handle ==
    \/ RejectMissingModel \/ RejectUnknownModel
    \/ ResolveHeaderBehavior \/ CallTriggerResolution
    \/ WalkExit \/ WalkMissing \/ WalkMatch \/ WalkParent
    \/ ResolveDirective \/ ResolveBehaviorModel \/ ResolveBuiltinName
    \/ ResolveDefaultBehavior
    \/ HandlerRejects \/ RespondRecorded \/ RespondError \/ RespondStream \/ RespondJson
    \/ Finish

-----------------------------------------------------------------------------
(* Direct calls of resolveTriggerResponse on every trigger registry *)

DefaultConfig(registry) ==
    [modelRegistry |-> registry,
     defaultBehavior |-> DEFAULT_BEHAVIOR,
     tokenCounting |-> "chars",
     configDir |-> <<"/">>,
     robotScript |-> <<>>]

InitTrigger ==
    /\ config \in {DefaultConfig(r) : r \in TriggerRegistries}
    /\ Idle

CallResolveTrigger ==
    /\ pc = "idle"
    /\ \E name \in ParentNames, message \in Matches : StartWalk(name, message)
    /\ UNCHANGED <<daemon, fileStore, sse, config, req, result, out>>

NextTrigger == CallResolveTrigger \/ WalkExit \/ WalkMissing \/ WalkMatch \/ WalkParent

SpecTrigger == InitTrigger /\ [][NextTrigger]_vars

FairSpecTrigger == SpecTrigger /\ WF_vars(NextTrigger)

-----------------------------------------------------------------------------
(* The server under sample configurations and requests of every endpoint *)

ThinkerName == <<"T", "h", "i", "n", "k", "e", "r">>

ModelM == <<"m">>

RobotName == <<"r">>

UnknownName == <<"x">>

DString == [string |-> <<"H", "i", "!">>]

DEcho == [type |-> "echo"]

DMessage ==
    [type |-> "message", content |-> <<"o", "k">>, reasoning |-> <<"w", "h", "y">>,
     usage |-> [cache_read |-> 1]]

DFile == [type |-> "file", path |-> FixturePath]

DFileMissing == [type |-> "file", path |-> MissingPath]

DError == [type |-> "error", status |-> 429]

\* the ways the configuration defines, or not, the model named Thinker
ThinkerOptions ==
    {[kind |-> "absent"],
     [kind |-> "trigger",
      value |-> [entries |-> <<[match |-> Hello, response |-> DString]>>]],
     [kind |-> "trigger",
      value |-> [entries |-> <<[match |-> Hello, response |-> DError]>>,
                 defaultEntry |-> [response |-> DEcho]]],
     [kind |-> "behavior", value |-> [behavior |-> <<"w", "e", "i", "r", "d", "o">>]],
     [kind |-> "behavior",
      value |-> [rules |-> <<[match |-> Hello, response |-> <<"y", "e", "s">>]>>]]}

\* the ways the configuration defines, or not, the model named m
ModelMOptions ==
    {[kind |-> "absent"],
     [kind |-> "trigger",
      value |-> [entries |-> <<[match |-> Hello, response |-> DMessage]>>,
                 parent |-> ThinkerName]],
     [kind |-> "trigger",
      value |-> [entries |-> <<[match |-> Hello, response |-> DFile],
                               [match |-> Other, response |-> DFileMissing]>>]],
     [kind |-> "behavior",
      value |-> [behavior |-> <<"R", "o", "b", "o", "t">>,
                 rules |-> <<[match |-> <<"/", "H", "/", "i">>, response |-> <<"r", "e">>],
                             [match |-> Other]>>]]}

ModelsOf(kind, name, option) ==
    IF option.kind = kind THEN name :> option.value ELSE EmptyObject

SampleRegistries ==
    {MakeRegistry(ModelsOf("trigger", ThinkerName, t) @@ ModelsOf("trigger", ModelM, m),
                  ModelsOf("behavior", ThinkerName, t) @@ ModelsOf("behavior", ModelM, m)) :
        t \in ThinkerOptions, m \in ModelMOptions}

SampleConfigs ==
    {[DefaultConfig(r) EXCEPT !.defaultBehavior = b] :
        r \in SampleRegistries, b \in {DEFAULT_BEHAVIOR, <<"w", "e", "i", "r", "d", "o">>}}

\* body.stream and body.stream_options of the requests of an endpoint
StreamBodies(endpoint) ==
    IF endpoint = "chat"
    THEN {EmptyObject,
          [stream |-> TRUE],
          [stream |-> TRUE, stream_options |-> [include_usage |-> TRUE]],
          [stream |-> TRUE, stream_options |-> [include_usage |-> FALSE]]}
    ELSE IF endpoint \in {"responses", "anthropic"}
    THEN {EmptyObject, [stream |-> TRUE]}
    ELSE {EmptyObject}

ToolBodies == {EmptyObject, [tools |-> <<[function |-> [name |-> <<"t">>]]>>]}

Endpoints == {"chat", "responses", "anthropic", "gemini", "geminiStream"}

\* the last user text and the whole text of the conversation
Conversations ==
    {[lastUser |-> Hello, allText |-> Hello],
     [lastUser |-> Other, allText |-> <<"s", " ">> \o Other]}

SampleRequests ==
    {Request("chat", model, sb @@ tb, h, c.lastUser, c.allText) :
        model \in {ModelM, ThinkerName, <<"t", "h", "i", "n", "k", "e", "r">>, UnknownName},
        sb \in StreamBodies("chat"), tb \in ToolBodies,
        h \in {EmptyObject, ("x-behavior" :> <<" ", "T", "h", "i", "n", "k", "e", "r">>)},
        c \in Conversations}
    \cup
    UNION {{Request(e, model, sb, EmptyObject, Hello, Hello) :
                model \in {ModelM, <<>>}, sb \in StreamBodies(e)} :
           e \in Endpoints \ {"chat"}}

Init ==
    /\ config \in SampleConfigs
    /\ Idle

Next == Receive(SampleRequests) \/ Handle

Spec == Init /\ [][Next]_vars

-----------------------------------------------------------------------------
(* Direct calls of the translator on every small canonical response *)

TokenCounts == 0..MaxTokens

\* an optional numeric field: absent, or any count
OptionalCount(key) == {EmptyObject} \cup {key :> n : n \in TokenCounts}

\* canonical usage records: input and output, and each optional detail or not
CanonicalUsages ==
    {[input |-> i, output |-> o] @@ r @@ cr @@ cc :
        i \in TokenCounts, o \in TokenCounts,
        r \in OptionalCount("reasoning"),
        cr \in OptionalCount("cache_read"),
        cc \in OptionalCount("cache_creation")}

SampleToolCall == [id |-> generateId("tool"), name |-> <<"t">>, arguments |-> EmptyObject]

CanonicalResponses ==
    {[content |-> c, usage |-> u] @@ r @@ tc :
        c \in {<<>>, <<"a">>, <<"a", " ", "b">>},
        u \in CanonicalUsages,
        r \in {EmptyObject, [reasoning |-> <<"r">>]},
        tc \in {EmptyObject, [tool_calls |-> <<>>], [tool_calls |-> <<SampleToolCall>>]}}

InitTranslate ==
    /\ config = DefaultConfig(MakeRegistry(EmptyObject, EmptyObject))
    /\ req = Null
    /\ pc = "translate"
    /\ modelName = ModelM
    /\ userMessage = <<>>
    /\ current = <<>>
    /\ visited = {}
    /\ fallback = Null
    /\ triggerMatch = Null
    /\ result \in {[mode |-> "canonical", response |-> r, behavior |-> DEFAULT_BEHAVIOR] :
                       r \in CanonicalResponses}
    /\ out = Null
    /\ sse = Null
    /\ fileStore = [files |-> EmptyObject, issued |-> {}]
    /\ daemon = Null

\* the call returns: out is what it returned
Translated(value) ==
    /\ pc = "translate"
    /\ out' = value
    /\ pc' = "translated"
    /\ UNCHANGED <<daemon, fileStore, sse, config, req, modelName, userMessage, current, visited, fallback,
                   triggerMatch, result>>

CallBuildOpenAIChatStreamEvents ==
    \E includeUsage \in BOOLEAN :
        Translated([builder |-> "buildOpenAIChatStreamEvents",
                    includeUsage |-> includeUsage,
                    events |-> buildOpenAIChatStreamEvents(result.response, modelName,
                                                           includeUsage)])

CallBuildAnthropicStreamEvents ==
    Translated([builder |-> "buildAnthropicStreamEvents",
                events |-> buildAnthropicStreamEvents(result.response, modelName)])

CallMapUsageToOpenAIChat ==
    Translated([builder |-> "mapUsageToOpenAIChat",
                body |-> mapUsageToOpenAIChat(result.response.usage)])

CallMapUsageToOpenAIResponses ==
    Translated([builder |-> "mapUsageToOpenAIResponses",
                body |-> mapUsageToOpenAIResponses(result.response.usage)])

CallMapUsageToAnthropic ==
    Translated([builder |-> "mapUsageToAnthropic",
                body |-> mapUsageToAnthropic(result.response.usage)])

CallMapUsageToGemini ==
    Translated([builder |-> "mapUsageToGemini",
                body |-> mapUsageToGemini(result.response.usage)])

NextTranslate ==
    \/ CallBuildOpenAIChatStreamEvents \/ CallBuildAnthropicStreamEvents
    \/ CallMapUsageToOpenAIChat \/ CallMapUsageToOpenAIResponses
    \/ CallMapUsageToAnthropic \/ CallMapUsageToGemini

SpecTranslate == InitTranslate /\ [][NextTranslate]_vars

-----------------------------------------------------------------------------
(* The server with one model whose trigger answers a message directive *)

\* the usage block of a message directive: none, or overrides of some
\* counts; the configuration file is not validated, so a count may be negative
UsageOverrides ==
    {EmptyObject, [usage |-> [input |-> MaxTokens]], [usage |-> [output |-> -1]]}
    \cup {[usage |-> [output |-> v] @@ i @@ r] :
            v \in TokenCounts \cup {WeirdoOutput},
            i \in {EmptyObject, [input |-> MaxTokens]},
            r \in {EmptyObject, [reasoning |-> MaxTokens]}}

MessageDirectives ==
    {[type |-> "message", content |-> c] @@ r @@ u :
        c \in {<<>>, <<"a">>, <<"a", " ", "b">>},
        r \in {EmptyObject, [reasoning |-> <<"r", " ", "r">>]},
        u \in UsageOverrides}

UsageConfigs ==
    {[DefaultConfig(MakeRegistry(
          ModelM :> [entries |-> <<[match |-> Hello, response |-> d]>>],
          EmptyObject)) EXCEPT !.tokenCounting = t] :
        d \in MessageDirectives, t \in {"chars", "words"}}

UsageRequests ==
    UNION {{Request(e, ModelM, sb, EmptyObject, Hello, allText) :
                sb \in StreamBodies(e), allText \in {Hello, <<"s", " ">> \o Hello}} :
           e \in Endpoints}

InitUsage ==
    /\ config \in UsageConfigs
    /\ Idle

NextUsage ==
    \/ Receive(UsageRequests)
    \/ CallTriggerResolution \/ WalkMatch \/ ResolveDirective
    \/ RespondStream \/ RespondJson \/ Finish

SpecUsage == InitUsage /\ [][NextUsage]_vars

-----------------------------------------------------------------------------
(* The server with one model and requests that declare tools *)

ToolName == <<"t">>

ChosenName == <<"u">>

\* a configured call with an id and arguments
CallWithId ==
    [id |-> <<"c", "1">>, name |-> <<"c">>, arguments |-> [path |-> <<"p">>]]

\* the directives of the model: message directives without, with no and with
\* configured tool calls, and an echo directive
ToolDirectives ==
    {[type |-> "message", content |-> <<"o", "k">>],
     [type |-> "message", content |-> <<"o", "k">>, tool_calls |-> <<>>],
     [type |-> "message", content |-> <<"o", "k">>, tool_calls |-> <<CallWithId>>],
     [type |-> "message", content |-> <<>>,
      tool_calls |-> <<[name |-> <<"c">>, args |-> [path |-> <<"p">>]],
                       [name |-> <<"d">>]>>],
     DEcho}

ToolConfigs ==
    {DefaultConfig(MakeRegistry(
         ModelM :> [entries |-> <<[match |-> Hello, response |-> d]>>],
         EmptyObject)) :
        d \in ToolDirectives}

\* the tools a request declares, in the shapes of the three providers
ToolDeclarations ==
    {EmptyObject,
     [tools |-> <<[type |-> "function", function |-> [name |-> ToolName]],
                  [type |-> "function", function |-> [name |-> ChosenName]]>>],
     [functions |-> <<[name |-> ToolName]>>],
     [tools |-> <<[name |-> ToolName]>>],
     [tools |-> <<[functionDeclarations |-> <<[name |-> ToolName]>>]>>]}

ToolChoices ==
    {EmptyObject,
     [tool_choice |-> [string |-> <<"n", "o", "n", "e">>]],
     [tool_choice |-> [string |-> <<"a", "u", "t", "o">>]],
     [tool_choice |-> [type |-> "function", function |-> [name |-> ChosenName]]]}

\* the x-tool-result header: none, one that parses as JSON, one that does not
ToolHeaders ==
    {EmptyObject,
     "x-tool-result" :> [json |-> [path |-> <<"q">>]],
     "x-tool-result" :> [raw |-> <<"q">>]}

ToolRequests ==
    {Request(e, ModelM, d @@ c, h, lastUser, lastUser) :
        e \in {"chat", "anthropic", "gemini"},
        d \in ToolDeclarations, c \in ToolChoices, h \in ToolHeaders,
        lastUser \in {Hello, Other}}

InitTools ==
    /\ config \in ToolConfigs
    /\ Idle

NextTools ==
    \/ Receive(ToolRequests)
    \/ CallTriggerResolution \/ WalkMatch \/ WalkParent \/ WalkExit
    \/ ResolveDirective \/ ResolveDefaultBehavior
    \/ RespondJson \/ Finish

SpecTools == InitTools /\ [][NextTools]_vars

-----------------------------------------------------------------------------
(* The server with every cause of an error answer, on each provider *)

\* a file directive without path: loadFixtureResponse returns an error
DFileNoPath == [type |-> "file"]

ErrorConfigs ==
    {[requireAuth |-> a, strictValidation |-> v]
     @@ DefaultConfig(MakeRegistry(
            ModelM :> [entries |-> <<[match |-> Hello, response |-> DError],
                                     [match |-> Other, response |-> DFileNoPath]>>],
            EmptyObject)) :
        a \in BOOLEAN, v \in BOOLEAN}

ErrorHeaders ==
    {k @@ e :
        k \in {EmptyObject, "authorization" :> <<"k">>, "x-api-key" :> <<"k">>,
               "x-goog-api-key" :> <<"k">>},
        e \in {EmptyObject, "x-error" :> <<"5", "0", "3">>}}

ErrorRequests ==
    {Request(e, model, body, h, lastUser, lastUser) :
        e \in {"chat", "anthropic", "gemini"},
        model \in {ModelM, UnknownName, <<>>},
        body \in {EmptyObject, [user |-> <<"u">>]},
        h \in ErrorHeaders,
        lastUser \in {Hello, Other}}

InitErrors ==
    /\ config \in ErrorConfigs
    /\ Idle

NextErrors ==
    \/ Receive(ErrorRequests)
    \/ RejectMissingKey \/ RejectInvalidBody
    \/ RejectMissingModel \/ RejectUnknownModel
    \/ RespondSimulatedError
    \/ CallTriggerResolution \/ WalkMatch \/ ResolveDirective
    \/ RespondError \/ RespondRecorded \/ Finish

SpecErrors == InitErrors /\ [][NextErrors]_vars

-----------------------------------------------------------------------------
(* streamSse: the paced emitter of an event list *)

MaxDelayMs == 7

\* chunkDelay with the total delay before every event
chunkDelayUndivided(delayMs, events) == delayMs

\* let chunkDelay = 0; if (delayMs > 0 && events.length > 0) chunkDelay = Math.floor(...)
chunkDelay(delayMs, events) ==
    IF delayMs > 0 /\ Len(events) > 0 THEN delayMs \div Len(events) ELSE 0

\* an event's data that is a JavaScript string is [text |-> chars] or the [DONE] literal
IsStringData(data) == Has(data, "text")

\* writeEvent: the res.write calls made for one event
writeEvent(event, includeEvent, useNdjson) ==
    IF useNdjson
    THEN <<[ndjson |-> JSONstringify(event.data)]>>
    ELSE (IF Has(event, "event") /\ includeEvent THEN <<[event |-> event.event]>> ELSE <<>>)
         \o <<IF event.data = DONE THEN [data |-> DONE]
              ELSE IF IsStringData(event.data) THEN [data |-> event.data]
              ELSE [data |-> JSONstringify(event.data)]>>

SampleResponse ==
    [content |-> <<"a">>, usage |-> [input |-> 1, output |-> 1]]

\* a recorded stream: a named event with string data, then the sentinel
RecordedEvents == <<[event |-> "ping", data |-> [text |-> <<"x">>]], [data |-> DONE]>>

StreamEventLists ==
    {<<>>,
     RecordedEvents,
     buildOpenAIChatStreamEvents(SampleResponse, ModelM, FALSE),
     buildAnthropicStreamEvents(SampleResponse, ModelM)}

InitStream ==
    /\ config = DefaultConfig(MakeRegistry(EmptyObject, EmptyObject))
    /\ Idle

\* streamSse(res, events, delayMs, {includeEvent, useNdjson}) up to the call of run()
CallStreamSse ==
    /\ pc = "idle"
    /\ \E events \in StreamEventLists, delayMs \in 0..MaxDelayMs,
          includeEvent \in BOOLEAN, useNdjson \in BOOLEAN :
            sse' = [events |-> events,
                    delayMs |-> delayMs,
                    includeEvent |-> includeEvent,
                    useNdjson |-> useNdjson,
                    status |-> 200,
                    chunkDelay |-> chunkDelay(delayMs, events),
                    index |-> 0,
                    delays |-> <<>>,
                    written |-> <<>>,
                    ended |-> 0,
                    closed |-> FALSE,
                    closedIn |-> 0]
    /\ pc' = "loop"
    /\ UNCHANGED <<daemon, fileStore, config, req, modelName, userMessage, current, visited, fallback,
                   triggerMatch, result, out>>

\* the client closes the connection while event sse.index + 1 is being paced or written
ClientDisconnects ==
    /\ pc \in {"loop", "write"}
    /\ sse.index < Len(sse.events)
    /\ ~sse.closed
    /\ sse' = [sse EXCEPT !.closed = TRUE, !.closedIn = sse.index + 1]
    /\ UNCHANGED <<daemon, fileStore, config, req, pc, modelName, userMessage, current, visited, fallback,
                   triggerMatch, result, out>>

\* if (chunkDelay > 0) { await delay(chunkDelay); }
AwaitDelay ==
    /\ pc = "loop"
    /\ sse.index < Len(sse.events)
    /\ sse.chunkDelay > 0
    /\ sse' = [sse EXCEPT !.delays = Append(@, sse.chunkDelay)]
    /\ pc' = "write"
    /\ UNCHANGED <<daemon, fileStore, config, req, modelName, userMessage, current, visited, fallback,
                   triggerMatch, result, out>>

AtWrite ==
    \/ pc = "write"
    \/ pc = "loop" /\ sse.index < Len(sse.events) /\ sse.chunkDelay = 0

\* await writeEvent(event): on a closed connection the write is dropped by the
\* response object, and the loop goes on
AwaitWriteEvent ==
    /\ AtWrite
    /\ sse' = [sse EXCEPT !.index = @ + 1,
                          !.written = @ \o writeEvent(sse.events[sse.index + 1],
                                                      sse.includeEvent, sse.useNdjson)]
    /\ pc' = "loop"
    /\ UNCHANGED <<daemon, fileStore, config, req, modelName, userMessage, current, visited, fallback,
                   triggerMatch, result, out>>

\* a write on a closed connection that raises: run() rejects
WriteEventThrows ==
    /\ AtWrite
    /\ sse.closed
    /\ pc' = "caught"
    /\ UNCHANGED <<daemon, fileStore, sse, config, req, modelName, userMessage, current, visited, fallback,
                   triggerMatch, result, out>>

\* res.end() after the loop
EndResponse ==
    /\ pc = "loop"
    /\ sse.index = Len(sse.events)
    /\ sse' = [sse EXCEPT !.ended = @ + 1]
    /\ pc' = "streamed"
    /\ UNCHANGED <<daemon, fileStore, config, req, modelName, userMessage, current, visited, fallback,
                   triggerMatch, result, out>>

\* run().catch((error) => { console.error('Streaming error', error); res.end(); })
CatchStreamingError ==
    /\ pc = "caught"
    /\ sse' = [sse EXCEPT !.ended = @ + 1]
    /\ pc' = "streamed"
    /\ UNCHANGED <<daemon, fileStore, config, req, modelName, userMessage, current, visited, fallback,
                   triggerMatch, result, out>>

\* the response is over: nothing of it is kept
StreamOver ==
    /\ pc = "streamed"
    /\ sse' = Null
    /\ pc' = "idle"
    /\ UNCHANGED <<daemon, fileStore, config, req, modelName, userMessage, current, visited, fallback,
                   triggerMatch, result, out>>

NextStream ==
    \/ CallStreamSse \/ ClientDisconnects
    \/ AwaitDelay \/ AwaitWriteEvent \/ WriteEventThrows
    \/ EndResponse \/ CatchStreamingError \/ StreamOver

SpecStream == InitStream /\ [][NextStream]_vars

-----------------------------------------------------------------------------
(* parseTriggerList on raw trigger lists *)

MaxItems == 3

InheritKey == <<"_", "i", "n", "h", "e", "r", "i", "t">>

DefaultKey == <<"_", "d", "e", "f", "a", "u", "l", "t">>

\* a raw item that is an object: its keys and values in the order of Object.keys
RawObject(pairs) == [object |-> pairs]

Pair(key, value) == [key |-> key, value |-> value]

\* item && typeof item === 'object'
IsObject(item) == Has(item, "object")

\* key in item
In(key, item) == \E i \in 1..Len(item.object) : item.object[i].key = key

\* item[key]
Get(item, key) ==
    item.object[CHOOSE i \in 1..Len(item.object) : item.object[i].key = key].value

\* typeof value === 'string'
IsString(value) == Has(value, "string")

\* the items a raw list is made of: a null, parents that are a name, the empty
\* string or not a string, defaults, a trigger, malformed objects of two keys
RawItems ==
    {Null,
     RawObject(<<Pair(InheritKey, [string |-> <<"B">>])>>),
     RawObject(<<Pair(InheritKey, [string |-> <<"Z">>])>>),
     RawObject(<<Pair(InheritKey, [string |-> <<>>])>>),
     RawObject(<<Pair(InheritKey, Null)>>),
     RawObject(<<Pair(DefaultKey, [string |-> <<"d">>])>>),
     RawObject(<<Pair(DefaultKey, [string |-> <<"e">>])>>),
     RawObject(<<Pair(Hello, [string |-> <<"t">>])>>),
     RawObject(<<Pair(Hello, [string |-> <<"t">>]), Pair(Other, [string |-> <<"u">>])>>),
     RawObject(<<Pair(InheritKey, [string |-> <<"B">>]), Pair(DefaultKey, [string |-> <<"d">>])>>)}

RawLists == SeqsUpTo(RawItems, MaxItems)

\* one iteration of the loop of parseTriggerList; parsed holds entries, baseModels
\* and, once they are set, defaultEntry and parent
parseItem(parsed, item) ==
    IF ~IsObject(item) THEN parsed
    ELSE IF In(InheritKey, item) /\ ~Has(parsed, "parent")
    THEN IF IsString(Get(item, InheritKey)) /\ Get(item, InheritKey).string # <<>>
         THEN ("parent" :> Get(item, InheritKey).string)
              @@ [parsed EXCEPT !.baseModels = @ \cup {Get(item, InheritKey).string}]
         ELSE parsed
    ELSE IF In(DefaultKey, item) /\ ~Has(parsed, "defaultEntry")
    THEN ("defaultEntry" :> [response |-> Get(item, DefaultKey)]) @@ parsed
    ELSE IF Len(item.object) # 1 THEN parsed
    ELSE [parsed EXCEPT !.entries =
             Append(@, [match |-> item.object[1].key, response |-> item.object[1].value])]

RECURSIVE parseItems(_, _, _)
\* the loop of parseTriggerList after its first k items
parseItems(list, k, baseModels) ==
    IF k = 0 THEN [entries |-> <<>>, baseModels |-> baseModels]
    ELSE parseItem(parseItems(list, k - 1, baseModels), list[k])

\* parseTriggerList(list, baseModels): { entries, defaultEntry, parent }, with the
\* set baseModels as the call leaves it
parseTriggerList(list, baseModels) == parseItems(list, Len(list), baseModels)

InitParse ==
    /\ config = DefaultConfig(MakeRegistry(EmptyObject, EmptyObject))
    /\ Idle

\* const parsed = parseTriggerList(modelValue, baseModels) on a fresh baseModels
CallParseTriggerList ==
    /\ pc = "idle"
    /\ \E list \in RawLists :
          out' = [list |-> list, parsed |-> parseTriggerList(list, {})]
    /\ pc' = "parsed"
    /\ UNCHANGED <<daemon, fileStore, sse, config, req, modelName, userMessage, current, visited, fallback,
                   triggerMatch, result>>

\* the caller has filed the parsed model
ParseReturns ==
    /\ pc = "parsed"
    /\ out' = Null
    /\ pc' = "idle"
    /\ UNCHANGED <<daemon, fileStore, sse, config, req, modelName, userMessage, current, visited, fallback,
                   triggerMatch, result>>

NextParse == CallParseTriggerList \/ ParseReturns

SpecParse == InitParse /\ [][NextParse]_vars

-----------------------------------------------------------------------------
(* Public model listings *)

BUILTIN_MODELS ==
    {<<"E", "c", "h", "o">>, <<"R", "o", "b", "o", "t">>,
     <<"W", "e", "i", "r", "d", "o">>, <<"T", "h", "i", "n", "k", "e", "r">>}

\* name.startsWith('_')
StartsWithUnderscore(name) == Len(name) > 0 /\ name[1] = "_"

\* listModelNames(registry, { excludeBaseModels }): the names, as a set
listModelNames(registry, excludeBaseModels) ==
    {name \in DOMAIN registry.triggerModels \cup DOMAIN registry.behaviorModels :
        ~StartsWithUnderscore(name)}
    \ (IF excludeBaseModels THEN registry.baseModels ELSE {})

\* getModelNames(config)
getModelNames ==
    IF listModelNames(config.modelRegistry, TRUE) = {}
    THEN BUILTIN_MODELS
    ELSE listModelNames(config.modelRegistry, TRUE)

HiddenName == <<"_", "h">>

BehaviorName == <<"C">>

\* registries of trigger models A, B and _h, each defined or not and with any
\* parent or none, and of a behavior model C, defined or not
ListingRegistries ==
    {MakeRegistry([n \in defined |-> TriggerModel(n, <<>>, TRUE, parents[n])],
                  [n \in behaviors |-> [behavior |-> <<"e", "c", "h", "o">>]]) :
        defined \in SUBSET (TriggerNames \cup {HiddenName}),
        parents \in [TriggerNames \cup {HiddenName} -> ParentNames \cup {<<>>}],
        behaviors \in SUBSET {BehaviorName}}

InitListing ==
    /\ config \in {DefaultConfig(r) : r \in ListingRegistries}
    /\ Idle

\* const names = getModelNames(config) in listOpenAIModels, listAnthropicModels
\* and listGeminiModels
CallGetModelNames ==
    /\ pc = "idle"
    /\ out' = [names |-> getModelNames]
    /\ pc' = "listed"
    /\ UNCHANGED <<daemon, fileStore, sse, config, req, modelName, userMessage, current, visited, fallback,
                   triggerMatch, result>>

\* the listing has been sent
ListingSent ==
    /\ pc = "listed"
    /\ out' = Null
    /\ pc' = "idle"
    /\ UNCHANGED <<daemon, fileStore, sse, config, req, modelName, userMessage, current, visited, fallback,
                   triggerMatch, result>>

NextListing == CallGetModelNames \/ ListingSent

SpecListing == InitListing /\ [][NextListing]_vars

-----------------------------------------------------------------------------
(* Requests handled while the paced stream of an earlier request is emitted *)

ConcurrentConfig ==
    DefaultConfig(MakeRegistry(
        ModelM :> TriggerModel(ModelM, <<Hello>>, FALSE, <<"B">>)
        @@ <<"B">> :> TriggerModel(<<"B">>, <<Other>>, TRUE, <<>>)
        @@ <<"A">> :> TriggerModel(<<"A">>, <<Hello>>, FALSE, <<"Z">>),
        EmptyObject))

ConcurrentRequests ==
    {Request("chat", m, b, EmptyObject, t, t) :
        m \in {ModelM, <<"A">>}, b \in {EmptyObject, [stream |-> TRUE]},
        t \in {Hello, Other, <<"n">>}}

InitConcurrent ==
    /\ config = ConcurrentConfig
    /\ Idle

\* return streamSse(res, events, calculateDelay(req, config)): run() is started
\* and the handler returns while the emitter is suspended in its first delay
ReturnWhileStreaming ==
    /\ pc = "sent"
    /\ Has(out, "events")
    /\ sse = Null
    /\ sse' = [events |-> out.events,
               delayMs |-> MaxDelayMs,
               includeEvent |-> out.includeEvent,
               useNdjson |-> FALSE,
               status |-> 200,
               chunkDelay |-> chunkDelay(MaxDelayMs, out.events),
               index |-> 0,
               delays |-> <<>>,
               written |-> <<>>,
               ended |-> 0,
               closed |-> FALSE,
               closedIn |-> 0]
    /\ req' = Null
    /\ pc' = "idle"
    /\ modelName' = <<>>
    /\ userMessage' = <<>>
    /\ current' = <<>>
    /\ visited' = {}
    /\ fallback' = Null
    /\ triggerMatch' = Null
    /\ result' = Null
    /\ out' = Null
    /\ UNCHANGED <<daemon, fileStore, config>>

\* the timer of the emitter's pending delay fires, whatever the handlers do
DelayElapses ==
    /\ sse # Null
    /\ sse.index < Len(sse.events)
    /\ Len(sse.delays) = sse.index
    /\ sse.chunkDelay > 0
    /\ sse' = [sse EXCEPT !.delays = Append(@, sse.chunkDelay)]
    /\ UNCHANGED <<daemon, fileStore, config, req, pc, modelName, userMessage, current, visited, fallback,
                   triggerMatch, result, out>>

\* the emitter resumes and writes its next event
EmitterWrites ==
    /\ sse # Null
    /\ sse.index < Len(sse.events)
    /\ Len(sse.delays) = sse.index + 1 \/ sse.chunkDelay = 0
    /\ sse' = [sse EXCEPT !.index = @ + 1,
                          !.written = @ \o writeEvent(sse.events[sse.index + 1],
                                                      sse.includeEvent, sse.useNdjson)]
    /\ UNCHANGED <<daemon, fileStore, config, req, pc, modelName, userMessage, current, visited, fallback,
                   triggerMatch, result, out>>

\* res.end() of the emitter: the stream is over
EmitterEnds ==
    /\ sse # Null
    /\ sse.index = Len(sse.events)
    /\ sse' = Null
    /\ UNCHANGED <<daemon, fileStore, config, req, pc, modelName, userMessage, current, visited, fallback,
                   triggerMatch, result, out>>

NextConcurrent ==
    \/ Receive(ConcurrentRequests)
    \/ CallTriggerResolution
    \/ WalkExit \/ WalkMissing \/ WalkMatch \/ WalkParent
    \/ ResolveDirective \/ ResolveDefaultBehavior
    \/ RespondStream \/ RespondJson
    \/ Finish \/ ReturnWhileStreaming
    \/ DelayElapses \/ EmitterWrites \/ EmitterEnds

SpecConcurrent == InitConcurrent /\ [][NextConcurrent]_vars

-----------------------------------------------------------------------------
(* handleRecordedResponse: replay of a fixture document *)

MessagePrefix == <<"m", "e", "s", "s", "a", "g", "e", "_">>

\* text.startsWith(prefix)
StartsWith(text, prefix) ==
    Len(text) >= Len(prefix) /\ SubSeq(text, 1, Len(prefix)) = prefix

Ndjson == <<"n", "d", "j", "s", "o", "n">>

EventStreamType == <<"t", "e", "x", "t", "/", "e", "v", "e", "n", "t", "-", "s", "t", "r", "e", "a", "m">>

NdjsonType == <<"a", "p", "p", "l", "i", "c", "a", "t", "i", "o", "n", "/", "x", "-">> \o Ndjson

\* chunk && typeof chunk === 'object'; a chunk that is a string is [text |-> chars]
IsObjectChunk(chunk) == chunk # Null /\ ~Has(chunk, "text")

\* normalizeRecordedEvent without the branch for chunk.event
normalizeRecordedEventByType(chunk) ==
    IF IsObjectChunk(chunk) /\ Has(chunk, "done") /\ chunk.done
    THEN [data |-> DONE]
    ELSE IF IsObjectChunk(chunk) /\ Has(chunk, "type") /\ StartsWith(chunk.type, MessagePrefix)
    THEN [event |-> chunk.type, data |-> chunk]
    ELSE [data |-> chunk]

normalizeRecordedEvent(chunk) ==
    IF IsObjectChunk(chunk) /\ Has(chunk, "done") /\ chunk.done
    THEN [data |-> DONE]
    ELSE IF IsObjectChunk(chunk) /\ Has(chunk, "event") /\ chunk.event # <<>>
    THEN [event |-> chunk.event, data |-> IF Has(chunk, "data") THEN chunk.data ELSE chunk]
    ELSE IF IsObjectChunk(chunk) /\ Has(chunk, "type") /\ StartsWith(chunk.type, MessagePrefix)
    THEN [event |-> chunk.type, data |-> chunk]
    ELSE [data |-> chunk]

\* the chunks a stored stream is made of
RecordedChunks ==
    {[done |-> TRUE],
     [type |-> MessagePrefix \o <<"s", "t", "o", "p">>],
     [type |-> <<"p", "i", "n", "g">>, done |-> FALSE],
     [event |-> <<"e">>, data |-> [text |-> <<"x">>]],
     [event |-> <<"e">>, type |-> MessagePrefix],
     [choices |-> <<>>],
     [text |-> <<"r", "a", "w">>]}

StreamingFlags ==
    {[response |-> [is_streaming |-> TRUE]],
     [response |-> EmptyObject, is_streaming |-> TRUE],
     [response |-> EmptyObject, request |-> [body |-> [stream |-> TRUE]]]}

StreamingDocuments ==
    {[response |-> [body |-> chunks] @@ h @@ f.response, duration_ms |-> d] @@ f :
        chunks \in SeqsUpTo(RecordedChunks, MaxEntries),
        h \in {EmptyObject,
               [headers |-> ("content-type" :> NdjsonType)],
               [headers |-> ("Content-Type" :> EventStreamType)]},
        d \in {0, MaxDelayMs},
        f \in StreamingFlags}

StoredBody == [id |-> <<"c">>]

\* documents replayed at once: with and without status, headers and body, one
\* whose request streamed but whose response says it did not, and a document
\* whose body is at its top level
PlainDocuments ==
    {[response |-> s @@ h @@ b] @@ q :
        s \in {EmptyObject, [status |-> 201]},
        h \in {EmptyObject, [headers |-> ("x-request-id" :> <<"r">>)]},
        b \in {EmptyObject, [body |-> StoredBody]},
        q \in {EmptyObject,
               [request |-> [body |-> [stream |-> TRUE]], is_streaming |-> FALSE]}}
    \cup {[status |-> 201, body |-> StoredBody]}

\* recorded.response || {}
ResponseOf(recorded) == IF Has(recorded, "response") THEN recorded.response ELSE EmptyObject

\* Boolean(response.is_streaming ?? recorded?.is_streaming ?? recorded?.request?.body?.stream)
isStreaming(recorded) ==
    IF Has(ResponseOf(recorded), "is_streaming") THEN ResponseOf(recorded).is_streaming
    ELSE IF Has(recorded, "is_streaming") THEN recorded.is_streaming
    ELSE /\ Has(recorded, "request")
         /\ Has(recorded.request, "body")
         /\ Has(recorded.request.body, "stream")
         /\ recorded.request.body.stream

\* response.headers || {}
HeadersOf(recorded) ==
    IF Has(ResponseOf(recorded), "headers") THEN ResponseOf(recorded).headers ELSE EmptyObject

\* headers['content-type'] || headers['Content-Type'] || 'text/event-stream'
ContentTypeOf(recorded) ==
    OrText(OrText(TextOf(HeadersOf(recorded), "content-type"),
                  TextOf(HeadersOf(recorded), "Content-Type")),
           EventStreamType)

\* events.map((chunk) => normalizeRecordedEvent(chunk)) for a body that is an array
RecordedEventsOf(recorded) ==
    [i \in 1..Len(ResponseOf(recorded).body) |->
        normalizeRecordedEvent(ResponseOf(recorded).body[i])]

InitRecorded ==
    /\ config = DefaultConfig(MakeRegistry(EmptyObject, EmptyObject))
    /\ Idle

\* handleRecordedResponse for a document that is not streaming:
\* res.setHeader for every stored header, res.status(status).json(body ?? {})
ReplayAtOnce ==
    /\ pc = "idle"
    /\ \E recorded \in PlainDocuments :
          /\ ~isStreaming(recorded)
          /\ out' = [recorded |-> recorded,
                     status |-> IF Has(ResponseOf(recorded), "status")
                                THEN ResponseOf(recorded).status ELSE 200,
                     headers |-> HeadersOf(recorded),
                     body |-> IF Has(ResponseOf(recorded), "body")
                              THEN ResponseOf(recorded).body ELSE EmptyObject]
    /\ pc' = "sent"
    /\ UNCHANGED <<daemon, fileStore, sse, config, req, modelName, userMessage, current, visited, fallback,
                   triggerMatch, result>>

\* handleRecordedResponse for a streaming document: streamRecorded up to run()
ReplayStream ==
    /\ pc = "idle"
    /\ \E recorded \in StreamingDocuments :
          /\ isStreaming(recorded)
          /\ sse' = [chunks |-> ResponseOf(recorded).body,
                     events |-> RecordedEventsOf(recorded),
                     delayMs |-> recorded.duration_ms,
                     includeEvent |-> \E i \in 1..Len(RecordedEventsOf(recorded)) :
                                         Has(RecordedEventsOf(recorded)[i], "event"),
                     useNdjson |-> Contains(ContentTypeOf(recorded), Ndjson),
                     status |-> 200,
                     chunkDelay |-> chunkDelay(recorded.duration_ms, RecordedEventsOf(recorded)),
                     index |-> 0,
                     delays |-> <<>>,
                     written |-> <<>>,
                     ended |-> 0,
                     closed |-> FALSE,
                     closedIn |-> 0]
    /\ pc' = "loop"
    /\ UNCHANGED <<daemon, fileStore, config, req, modelName, userMessage, current, visited, fallback,
                   triggerMatch, result, out>>

NextRecorded ==
    \/ ReplayAtOnce \/ Finish
    \/ ReplayStream \/ AwaitDelay \/ AwaitWriteEvent \/ EndResponse \/ StreamOver

SpecRecorded == InitRecorded /\ [][NextRecorded]_vars

-----------------------------------------------------------------------------
(* Direct calls of matchRobotScript on every small script *)

\* rule matches: a literal, a pattern, a pattern with the i flag, a pattern
\* whose body does not compile, a pattern with an unknown flag, and none
RobotMatches ==
    {Hello,
     <<"/", "h", "/">>,
     <<"/", "H", "/", "i">>,
     <<"/", "(", "/">>,
     <<"/", "h", "/", "q">>,
     <<>>}

RobotFallback == <<"f", "b">>

RobotScripts ==
    {[rules |-> [i \in 1..Len(ms) |-> [match |-> ms[i], response |-> <<"r", ToString(i)>>]]]
     @@ f :
        ms \in SeqsUpTo(RobotMatches, MaxEntries),
        f \in {EmptyObject, [fallback |-> RobotFallback]}}

RobotInputs == {Hello, <<"o", "h">>, <<"/", "(", "/">>, Other}

InitRobot ==
    /\ config = DefaultConfig(MakeRegistry(EmptyObject, EmptyObject))
    /\ Idle

\* const resultText = matchRobotScript(script, lastUserMessage || inputText || '')
CallMatchRobotScript ==
    /\ pc = "idle"
    /\ \E script \in RobotScripts, userInput \in RobotInputs :
          out' = [script |-> script,
                  userInput |-> userInput,
                  content |-> matchRobotScript(script, userInput)]
    /\ pc' = "matched"
    /\ UNCHANGED <<daemon, fileStore, sse, config, req, modelName, userMessage, current, visited, fallback,
                   triggerMatch, result>>

\* const response = { content: resultText }
RobotAnswers ==
    /\ pc = "matched"
    /\ out' = Null
    /\ pc' = "idle"
    /\ UNCHANGED <<daemon, fileStore, sse, config, req, modelName, userMessage, current, visited, fallback,
                   triggerMatch, result>>

NextRobot == CallMatchRobotScript \/ RobotAnswers

SpecRobot == InitRobot /\ [][NextRobot]_vars

-----------------------------------------------------------------------------
(* FileStore: the in-memory store behind the /v1/files routes *)

MaxFiles == 3

\* the ids generateId('file') can return; it returns none twice
FileIds == 1..MaxFiles

\* the record create() stores; an absent filename, purpose or buffer is << >>
FileRecord(id, filename, purpose, buffer) ==
    [id |-> id,
     object |-> "file",
     bytes |-> Len(buffer),
     created_at |-> nowSeconds,
     filename |-> OrText(filename, <<"f", "i", "l", "e">>),
     purpose |-> OrText(purpose, <<"u", "n", "k", "n", "o", "w", "n">>),
     buffer |-> buffer]

\* what list() and get() return of a stored file
FileView(file) ==
    [id |-> file.id, object |-> "file", bytes |-> file.bytes,
     created_at |-> file.created_at, filename |-> file.filename, purpose |-> file.purpose]

InitFiles ==
    /\ config = DefaultConfig(MakeRegistry(EmptyObject, EmptyObject))
    /\ Idle

\* create({ filename, purpose, buffer, mimeType })
FileStoreCreate ==
    /\ pc = "idle"
    /\ \E id \in FileIds \ fileStore.issued, filename \in {<<>>, <<"d">>}, buffer \in {<<>>, <<"b">>} :
          /\ fileStore' = [files |-> (id :> FileRecord(id, filename, <<>>, buffer))
                                     @@ fileStore.files,
                           issued |-> fileStore.issued \cup {id}]
          /\ out' = [op |-> "create", returned |-> FileRecord(id, filename, <<>>, buffer)]
    /\ UNCHANGED <<daemon, config, req, pc, modelName, userMessage, current, visited, fallback,
                   triggerMatch, result, sse>>

\* list()
FileStoreList ==
    /\ pc = "idle"
    /\ out' = [op |-> "list",
               returned |-> {FileView(fileStore.files[id]) : id \in DOMAIN fileStore.files}]
    /\ UNCHANGED <<daemon, fileStore, config, req, pc, modelName, userMessage, current, visited,
                   fallback, triggerMatch, result, sse>>

\* get(id)
FileStoreGet ==
    /\ pc = "idle"
    /\ \E id \in FileIds :
          out' = [op |-> "get",
                  id |-> id,
                  returned |-> IF id \in DOMAIN fileStore.files
                               THEN FileView(fileStore.files[id]) ELSE Null]
    /\ UNCHANGED <<daemon, fileStore, config, req, pc, modelName, userMessage, current, visited,
                   fallback, triggerMatch, result, sse>>

\* delete(id) that reports every id as deleted
FileStoreDeleteAlwaysTrue ==
    /\ pc = "idle"
    /\ \E id \in FileIds :
          /\ fileStore' = [fileStore EXCEPT !.files =
                              [i \in DOMAIN fileStore.files \ {id} |-> fileStore.files[i]]]
          /\ out' = [op |-> "delete",
                     id |-> id,
                     returned |-> [id |-> id, object |-> "file", deleted |-> TRUE]]
    /\ UNCHANGED <<daemon, config, req, pc, modelName, userMessage, current, visited, fallback,
                   triggerMatch, result, sse>>

\* delete(id)
FileStoreDelete ==
    /\ pc = "idle"
    /\ \E id \in FileIds :
          /\ fileStore' = [fileStore EXCEPT !.files =
                              [i \in DOMAIN fileStore.files \ {id} |-> fileStore.files[i]]]
          /\ out' = [op |-> "delete",
                     id |-> id,
                     returned |-> [id |-> id, object |-> "file",
                                   deleted |-> id \in DOMAIN fileStore.files]]
    /\ UNCHANGED <<daemon, config, req, pc, modelName, userMessage, current, visited, fallback,
                   triggerMatch, result, sse>>

NextFiles == FileStoreCreate \/ FileStoreList \/ FileStoreGet \/ FileStoreDelete

SpecFiles == InitFiles /\ [][NextFiles]_vars

-----------------------------------------------------------------------------
(* A client lists the models and then names a listed one in a request *)

\* POST /v1/chat/completions with body.model taken from the listing just sent
ReceiveListedModel ==
    /\ pc = "listed"
    /\ \E name \in out.names : req' = Request("chat", name, EmptyObject, EmptyObject, Hello, Hello)
    /\ pc' = "received"
    /\ out' = Null
    /\ UNCHANGED <<daemon, fileStore, sse, config, modelName, userMessage, current, visited, fallback,
                   triggerMatch, result>>

NextListed ==
    \/ CallGetModelNames \/ ReceiveListedModel
    \/ RejectUnknownModel
    \/ CallTriggerResolution
    \/ WalkExit \/ WalkMissing \/ WalkParent
    \/ ResolveDirective \/ ResolveBehaviorModel \/ ResolveBuiltinName
    \/ RespondJson \/ Finish

SpecListed == InitListing /\ [][NextListed]_vars

-----------------------------------------------------------------------------
(* scripts/daemon.js: the start and stop commands, the PID file, the processes *)

START_TIMEOUT_MS == 5000
STOP_TIMEOUT_MS == 5000
FORCE_STOP_TIMEOUT_MS == 2000
STOP_POLL_INTERVAL_MS == 100

\* process ids the system hands out; 0 stands for no PID file and no child
MaxPids == 3
Pids == 1..MaxPids

\* how far the clock moves while the start command waits for its child
ClockStepMs == 500

\* the messages runServer sends with notifyParent
ChildMessages == {[type |-> "ready"], [type |-> "error"]}

\* isProcessRunning taking every process for gone
isProcessRunningNever(pid) == FALSE

isProcessRunning(pid) == pid > 0 /\ pid \in daemon.running

\* process.kill / child.kill as the command's log of the signals it sent
Signal(pid, name) == [pid |-> pid, signal |-> name, at |-> daemon.now]

\* waitForReady's message handler treating every message as ready
waitForReadyAnyMessage(message) == "resolve"

\* waitForReady: what a message of the child does to the promise
waitForReady(message) ==
    IF message.type = "ready" THEN "resolve"
    ELSE IF message.type = "error" THEN "reject"
    ELSE "pending"

InitStart ==
    /\ config = DefaultConfig(MakeRegistry(EmptyObject, EmptyObject))
    /\ req = Null
    /\ pc = "start"
    /\ modelName = <<>>
    /\ userMessage = <<>>
    /\ current = <<>>
    /\ visited = {}
    /\ fallback = Null
    /\ triggerMatch = Null
    /\ result = Null
    /\ out = Null
    /\ sse = Null
    /\ fileStore = [files |-> EmptyObject, issued |-> {}]
    /\ \E pidFile \in {0} \cup Pids, running \in SUBSET Pids :
          daemon = [pidFile |-> pidFile, running |-> running, existingPid |-> 0,
                    child |-> 0, now |-> 0, deadline |-> 0, signals |-> <<>>,
                    message |-> Null, error |-> ""]

DaemonUnchanged ==
    UNCHANGED <<config, req, modelName, userMessage, current, visited, fallback,
                triggerMatch, result, out, sse, fileStore>>

\* startDaemon, the PID file names a running process: it throws before fork
StartAlreadyRunning ==
    /\ pc = "start"
    /\ isProcessRunning(daemon.pidFile)
    /\ daemon' = [daemon EXCEPT !.existingPid = daemon.pidFile,
                                !.error = "Process already running"]
    /\ pc' = "thrown"
    /\ DaemonUnchanged

\* startDaemon up to its await: a stale PID file is unlinked, the child is
\* forked with a process id no running process has, and the timer is set
StartFork ==
    /\ pc = "start"
    /\ ~isProcessRunning(daemon.pidFile)
    /\ \E child \in Pids \ daemon.running :
          daemon' = [daemon EXCEPT !.existingPid = daemon.pidFile,
                                   !.pidFile = 0,
                                   !.child = child,
                                   !.running = daemon.running \cup {child},
                                   !.deadline = daemon.now + START_TIMEOUT_MS]
    /\ pc' = "waitForReady"
    /\ DaemonUnchanged

\* time passes while the promise is pending; the timer is due at its deadline
StartClock ==
    /\ pc = "waitForReady"
    /\ daemon.now < daemon.deadline
    /\ daemon' = [daemon EXCEPT !.now = daemon.now + ClockStepMs]
    /\ DaemonUnchanged /\ UNCHANGED pc

\* the catch of startDaemon: SIGTERM to the child, the error is thrown again
StartFails(d, error) ==
    /\ daemon' = [d EXCEPT !.signals = Append(d.signals, Signal(d.child, "SIGTERM")),
                           !.error = error]
    /\ pc' = "thrown"

\* child.on('message') and the continuation of startDaemon it wakes
ChildMessage ==
    /\ pc = "waitForReady"
    /\ daemon.child \in daemon.running
    /\ \E message \in ChildMessages :
          LET settled == waitForReady(message)
          IN  /\ settled # "pending"
              /\ IF settled = "resolve"
                 THEN /\ daemon' = [daemon EXCEPT !.message = message,
                                                  !.pidFile = daemon.child]
                      /\ pc' = "started"
                 ELSE StartFails(daemon, "Server failed to start")
    /\ DaemonUnchanged

\* child.on('exit') while the promise is pending, and the catch it wakes
ChildExit ==
    /\ pc = "waitForReady"
    /\ daemon.child \in daemon.running
    /\ StartFails([daemon EXCEPT !.running = daemon.running \ {daemon.child}],
                  "Server process exited")
    /\ DaemonUnchanged

\* the timer of waitForReady fires, and the catch it wakes
ReadyTimeout ==
    /\ pc = "waitForReady"
    /\ daemon.now >= daemon.deadline
    /\ StartFails(daemon, "Timed out waiting for server to start")
    /\ DaemonUnchanged

NextStart ==
    \/ StartAlreadyRunning \/ StartFork \/ StartClock
    \/ ChildMessage \/ ChildExit \/ ReadyTimeout

SpecStart == InitStart /\ [][NextStart]_vars

-----------------------------------------------------------------------------
(* stopDaemon: SIGTERM, the polls of waitForExit, SIGKILL, the PID file *)

InitStop ==
    /\ config = DefaultConfig(MakeRegistry(EmptyObject, EmptyObject))
    /\ req = Null
    /\ pc = "stop"
    /\ modelName = <<>>
    /\ userMessage = <<>>
    /\ current = <<>>
    /\ visited = {}
    /\ fallback = Null
    /\ triggerMatch = Null
    /\ result = Null
    /\ out = Null
    /\ sse = Null
    /\ fileStore = [files |-> EmptyObject, issued |-> {}]
    /\ \E pidFile \in {0} \cup Pids, running \in SUBSET Pids, owned \in BOOLEAN :
          daemon = [pidFile |-> pidFile, running |-> running, owned |-> owned,
                    pid |-> 0, now |-> 0, deadline |-> 0, signals |-> <<>>,
                    error |-> ""]

\* stopDaemon returns: whatever it did, it has unlinked the PID file first
StopReturns(d) ==
    /\ daemon' = [d EXCEPT !.pidFile = 0]
    /\ pc' = "returned"

\* readPid finds no PID file: nothing to stop
StopNoPidFile ==
    /\ pc = "stop"
    /\ daemon.pidFile = 0
    /\ pc' = "returned"
    /\ UNCHANGED daemon
    /\ DaemonUnchanged

\* the PID file names a process that is not running: the stale file is removed
StopStalePid ==
    /\ pc = "stop"
    /\ daemon.pidFile # 0
    /\ ~isProcessRunning(daemon.pidFile)
    /\ StopReturns([daemon EXCEPT !.pid = daemon.pidFile])
    /\ DaemonUnchanged

\* the PID file names a running process: process.kill comes next
StopFoundRunning ==
    /\ pc = "stop"
    /\ isProcessRunning(daemon.pidFile)
    /\ daemon' = [daemon EXCEPT !.pid = daemon.pidFile]
    /\ pc' = "kill"
    /\ DaemonUnchanged

\* process.kill(pid, 'SIGTERM'): ESRCH when the process has gone meanwhile,
\* EPERM when it may not be signalled, else waitForExit starts its deadline
StopSigterm ==
    /\ pc = "kill"
    /\ IF daemon.pid \notin daemon.running
       THEN StopReturns(daemon)
       ELSE IF ~daemon.owned
       THEN /\ daemon' = [daemon EXCEPT !.error = "EPERM"]
            /\ pc' = "thrown"
       ELSE /\ daemon' = [daemon EXCEPT
                             !.signals = Append(daemon.signals, Signal(daemon.pid, "SIGTERM")),
                             !.deadline = daemon.now + STOP_TIMEOUT_MS]
            /\ pc' = "waitForExit"
    /\ DaemonUnchanged

\* waitForExit, one turn of its loop with the process still running:
\* await delay(STOP_POLL_INTERVAL_MS)
StopPollDelay ==
    /\ pc \in {"waitForExit", "waitForForcedExit"}
    /\ daemon.now < daemon.deadline
    /\ isProcessRunning(daemon.pid)
    /\ daemon' = [daemon EXCEPT !.now = daemon.now + STOP_POLL_INTERVAL_MS]
    /\ DaemonUnchanged /\ UNCHANGED pc

\* waitForExit finds the process gone, in the loop or after the deadline:
\* stopDaemon unlinks the PID file and returns
StopExited ==
    /\ pc \in {"waitForExit", "waitForForcedExit"}
    /\ ~isProcessRunning(daemon.pid)
    /\ StopReturns(daemon)
    /\ DaemonUnchanged

\* waitForExit(pid, STOP_TIMEOUT_MS) returns false: forceKill sends SIGKILL
\* and waits again
StopForceKill ==
    /\ pc = "waitForExit"
    /\ daemon.now >= daemon.deadline
    /\ isProcessRunning(daemon.pid)
    /\ daemon' = [daemon EXCEPT
                     !.signals = Append(daemon.signals, Signal(daemon.pid, "SIGKILL")),
                     !.deadline = daemon.now + FORCE_STOP_TIMEOUT_MS]
    /\ pc' = "waitForForcedExit"
    /\ DaemonUnchanged

\* forceKill returns false: stopDaemon throws, the PID file stays
StopGivesUp ==
    /\ pc = "waitForForcedExit"
    /\ daemon.now >= daemon.deadline
    /\ isProcessRunning(daemon.pid)
    /\ daemon' = [daemon EXCEPT !.error = "did not exit after SIGKILL"]
    /\ pc' = "thrown"
    /\ DaemonUnchanged

\* the process the PID file names exits, of itself or because of a signal
ProcessExits ==
    /\ pc \in {"kill", "waitForExit", "waitForForcedExit"}
    /\ daemon.pid \in daemon.running
    /\ daemon' = [daemon EXCEPT !.running = daemon.running \ {daemon.pid}]
    /\ DaemonUnchanged /\ UNCHANGED pc

NextStop ==
    \/ StopNoPidFile \/ StopStalePid \/ StopFoundRunning \/ StopSigterm
    \/ StopPollDelay \/ StopExited \/ StopForceKill \/ StopGivesUp
    \/ ProcessExits

SpecStop == InitStop /\ [][NextStop]_vars

-----------------------------------------------------------------------------
(* Trigger resolution: the inheritance chain and what the walk must return *)

ParentOf(name) ==
    IF Has(TriggerModels[name], "parent") THEN TriggerModels[name].parent ELSE <<>>

RECURSIVE ChainFrom(_, _)
\* the models of triggerModels reached from name through the parent links,
\* nearest first, each once
ChainFrom(name, seen) ==
    IF name = <<>> \/ name \in seen \/ name \notin DOMAIN TriggerModels
    THEN <<>>
    ELSE <<name>> \o ChainFrom(ParentOf(name), seen \cup {name})

Chain == ChainFrom(modelName, {})

HasExact(name) == \E i \in 1..Len(TriggerModels[name].entries) :
                     TriggerModels[name].entries[i].match = userMessage

HasDefault(name) == Has(TriggerModels[name], "defaultEntry")

ExactLevels == {k \in 1..Len(Chain) : HasExact(Chain[k])}

DefaultLevels == {k \in 1..Len(Chain) : HasDefault(Chain[k])}

Nearest(levels) == CHOOSE k \in levels : \A j \in levels : k <= j

\* the parent link of the last model of the chain leads back into the chain
ChainIsCyclic ==
    /\ Len(Chain) > 0
    /\ \E k \in 1..Len(Chain) : ParentOf(Chain[Len(Chain)]) = Chain[k]

NearestDefault ==
    IF DefaultLevels = {}
    THEN Null
    ELSE [response |-> TriggerModels[Chain[Nearest(DefaultLevels)]].defaultEntry.response,
          model |-> Chain[Nearest(DefaultLevels)],
          isDefault |-> TRUE]

ExpectedTrigger ==
    IF ExactLevels # {}
    THEN LET name == Chain[Nearest(ExactLevels)]
             entries == TriggerModels[name].entries
             first == CHOOSE i \in 1..Len(entries) :
                         /\ entries[i].match = userMessage
                         /\ \A j \in 1..(i - 1) : entries[j].match # userMessage
         IN  [response |-> entries[first].response, model |-> name, isDefault |-> FALSE]
    ELSE NearestDefault

\* C1: when a model anywhere in the inheritance chain has an entry whose
\* match equals the user message, the walk returns an exact-match entry of the
\* chain (isDefault = false) and never a default, even when a nearer model
\* defines a _default.
C1_ExactBeatsDefault ==
    (pc = "walked" /\ ExactLevels # {}) =>
        /\ triggerMatch # Null
        /\ triggerMatch.isDefault = FALSE
        /\ \E k \in ExactLevels : \E i \in 1..Len(TriggerModels[Chain[k]].entries) :
              /\ TriggerModels[Chain[k]].entries[i].match = userMessage
              /\ TriggerModels[Chain[k]].entries[i].response = triggerMatch.response

\* the requested model has a _default and no match, its parent has the match
C1_Witness ==
    /\ pc = "walked"
    /\ Len(Chain) = 2
    /\ HasDefault(Chain[1]) /\ ~HasExact(Chain[1])
    /\ HasExact(Chain[2])
    /\ triggerMatch # Null
    /\ triggerMatch.isDefault = FALSE
    /\ triggerMatch.model = Chain[2]

\* C2: resolveTriggerResponse terminates on every registry, cyclic parent
\* links included, and on a cyclic chain without exact match it returns the
\* default of the nearest model of the chain that has one, or null.
C2_TerminatesOnCycles ==
    /\ (pc = "walk") ~> (pc = "walked")
    /\ [](pc = "walked" /\ ChainIsCyclic /\ ExactLevels = {} => triggerMatch = NearestDefault)

\* A inherits from B inherits from A, only B has a default, nothing matches
C2_Witness ==
    /\ pc = "walked"
    /\ ChainIsCyclic
    /\ Len(Chain) = 2
    /\ ExactLevels = {}
    /\ DefaultLevels = {2}
    /\ triggerMatch = NearestDefault
    /\ visited = {Chain[1], Chain[2]}

\* C3: the walk visits the requested model first and then its parents, scans
\* the entries in declaration order and returns the first matching entry of the
\* nearest model that has one; a model missing from triggerModels ends the
\* walk; without match it returns the default of the nearest model defining
\* one, or null.
C3_NearestFirstMatch ==
    pc = "walked" => triggerMatch = ExpectedTrigger

\* child and parent define the same trigger, the child defines it twice
C3_Witness ==
    /\ pc = "walked"
    /\ Len(Chain) = 2
    /\ ExactLevels = {1, 2}
    /\ Cardinality(MatchingEntries(TriggerModels[Chain[1]])) = 2
    /\ triggerMatch = ExpectedTrigger
    /\ triggerMatch.model = modelName


-----------------------------------------------------------------------------
(* resolveResponse: the decision order *)

\* the x-behavior header of the request as it arrived
RequestHeaderBehavior == TextOf(req.headers, "x-behavior")

\* the model name the handler passes to resolveResponse
RequestModel == resolveModelName(req.model)

\* the behavior label the first applicable step gives the result
FirstApplicableBehavior ==
    IF RequestHeaderBehavior # <<>>
    THEN Trim(RequestHeaderBehavior)
    ELSE IF ExpectedTrigger # Null
    THEN ConfigPrefix \o ExpectedTrigger.model
    ELSE IF RequestModel \in DOMAIN config.modelRegistry.behaviorModels
    THEN Trim(OrText(TextOf(config.modelRegistry.behaviorModels[RequestModel], "behavior"),
                     RequestModel))
    ELSE IF ToLowerCase(RequestModel) \in BUILTIN_BEHAVIORS
    THEN Trim(RequestModel)
    ELSE Trim(config.defaultBehavior)

\* C4: resolveResponse decides in a fixed order and the first step that
\* applies produces the result: the x-behavior header (trigger resolution is
\* not even started then, and the forced built-in answers whatever triggers
\* the model configures), then the directive of trigger resolution, then the
\* behaviorModels entry, then a model name that is a built-in behavior name
\* case-insensitively, then the configured default behavior.
C4_DecisionOrder ==
    /\ (req # Null /\ pc \in {"walk", "walked"}) => RequestHeaderBehavior = <<>>
    /\ (pc = "resolved" /\ ~Has(result, "threw")) =>
          /\ result.behavior = FirstApplicableBehavior
          /\ (RequestHeaderBehavior # <<>>
                /\ ToLowerCase(Trim(RequestHeaderBehavior)) = <<"t", "h", "i", "n", "k", "e", "r">>)
             => /\ result.mode = "canonical"
                /\ result.response.content = ThinkerContent
          /\ RequestHeaderBehavior = <<>> =>
                /\ (ExpectedTrigger # Null /\ Has(ExpectedTrigger.response, "string"))
                   => result.response.content = ExpectedTrigger.response.string
                /\ (ExpectedTrigger = Null
                      /\ RequestModel \notin DOMAIN config.modelRegistry.behaviorModels
                      /\ ToLowerCase(RequestModel) = <<"t", "h", "i", "n", "k", "e", "r">>)
                   => result.response.content = ThinkerContent

\* the header forces Thinker for a model whose trigger matches the message
C4_Witness ==
    /\ pc = "resolved"
    /\ RequestHeaderBehavior # <<>>
    /\ RequestModel \in DOMAIN config.modelRegistry.triggerModels
    /\ \E i \in 1..Len(config.modelRegistry.triggerModels[RequestModel].entries) :
          config.modelRegistry.triggerModels[RequestModel].entries[i].match = req.lastUser
    /\ result.behavior = ThinkerName
    /\ result.response.content = ThinkerContent

-----------------------------------------------------------------------------
(* Streaming event lists *)

ChatStreamCall == pc = "translated" /\ out.builder = "buildOpenAIChatStreamEvents"

\* the delta of the only choice of the k-th event of the list
DeltaOf(events, k) == events[k].data.choices[1].delta

IsFinishChunk(event) ==
    /\ Len(event.data.choices) = 1
    /\ event.data.choices[1].finish_reason = [string |-> "stop"]
    /\ event.data.choices[1].delta = EmptyObject
    /\ ~Has(event.data, "usage")

\* the statement with a chunk for the role and a separate chunk for the
\* content and tool calls
C5_SeparateRoleChunk ==
    ChatStreamCall =>
        /\ Len(out.events) = (IF out.includeUsage THEN 5 ELSE 4)
        /\ DeltaOf(out.events, 1) = [role |-> "assistant"]
        /\ ~Has(DeltaOf(out.events, 2), "role")
        /\ IsFinishChunk(out.events[3])
        /\ out.events[Len(out.events)].data = DONE

\* C5 (amended): the OpenAI chat streaming event list is, in this order: one
\* delta chunk that carries the assistant role together with the content,
\* the reasoning and the tool calls the response has, with a null
\* finish_reason; then a chunk with finish_reason stop and an empty delta;
\* then, only if usage was requested, one chunk with empty choices and the
\* full usage; then the [DONE] sentinel as the last event.
C5_ChatStreamOrder ==
    ChatStreamCall =>
        LET events == out.events
            response == result.response
        IN  /\ Len(events) = (IF out.includeUsage THEN 4 ELSE 3)
            /\ Len(events[1].data.choices) = 1
            /\ events[1].data.choices[1].finish_reason = Null
            /\ ~Has(events[1].data, "usage")
            /\ DeltaOf(events, 1).role = "assistant"
            /\ TextOf(DeltaOf(events, 1), "content") = response.content
            /\ TextOf(DeltaOf(events, 1), "reasoning_content") = TextOf(response, "reasoning")
            /\ Has(DeltaOf(events, 1), "tool_calls") = Has(response, "tool_calls")
            /\ Has(response, "tool_calls") =>
                  /\ Len(DeltaOf(events, 1).tool_calls) = Len(response.tool_calls)
                  /\ \A i \in 1..Len(response.tool_calls) :
                        DeltaOf(events, 1).tool_calls[i].function.name
                            = response.tool_calls[i].name
            /\ IsFinishChunk(events[2])
            /\ events[Len(events)].data = DONE
            /\ out.includeUsage =>
                  /\ events[3].data.choices = <<>>
                  /\ events[3].data.usage.prompt_tokens = response.usage.input
                  /\ events[3].data.usage.completion_tokens = response.usage.output
                  /\ events[3].data.usage.total_tokens
                        = response.usage.input + response.usage.output

\* a response with content and a tool call streamed with the usage chunk
C5_Witness ==
    /\ ChatStreamCall
    /\ out.includeUsage
    /\ Len(out.events) = 4
    /\ result.response.content # <<>>
    /\ HasToolCalls(result.response)
    /\ Has(DeltaOf(out.events, 1), "role")
    /\ Has(DeltaOf(out.events, 1), "tool_calls")

AnthropicEventNames ==
    <<"message_start", "content_block_start", "content_block_delta",
      "content_block_stop", "message_delta", "message_stop">>

AnthropicStreamCall == pc = "translated" /\ out.builder = "buildAnthropicStreamEvents"

\* C6: for every canonical response the Anthropic streaming event list is
\* exactly message_start, content_block_start, content_block_delta (a text
\* delta), content_block_stop, message_delta, message_stop, in that order;
\* the usage of message_start carries only input_tokens and message_delta
\* carries the full mapped usage, output_tokens included.
C6_AnthropicStreamOrder ==
    AnthropicStreamCall =>
        LET events == out.events
            usage == result.response.usage
        IN  /\ Len(events) = 6
            /\ \A k \in 1..6 : /\ events[k].event = AnthropicEventNames[k]
                               /\ events[k].data.type = AnthropicEventNames[k]
            /\ events[3].data.delta.type = "text_delta"
            /\ events[3].data.delta.text = result.response.content
            /\ DOMAIN events[1].data.message.usage = {"input_tokens"}
            /\ events[1].data.message.usage.input_tokens = usage.input
            /\ events[5].data.usage.input_tokens = usage.input
            /\ events[5].data.usage.output_tokens = usage.output
            /\ Has(events[5].data.usage, "cache_read_input_tokens") = Has(usage, "cache_read")
            /\ Has(usage, "cache_read") =>
                  events[5].data.usage.cache_read_input_tokens = usage.cache_read
            /\ Has(events[5].data.usage, "cache_creation_input_tokens")
                  = Has(usage, "cache_creation")
            /\ Has(usage, "cache_creation") =>
                  events[5].data.usage.cache_creation_input_tokens = usage.cache_creation

\* a response whose usage has output tokens and cache details, streamed
C6_Witness ==
    /\ AnthropicStreamCall
    /\ result.response.usage.output > 0
    /\ Has(result.response.usage, "cache_read")
    /\ Has(result.response.usage, "cache_creation")
    /\ Len(out.events) = 6

\* the request is a chat completion the handler answered with a synthesized
\* event stream
ChatStreamSent ==
    /\ pc = "sent"
    /\ req.endpoint = "chat"
    /\ Has(req.body, "stream")
    /\ req.body.stream = TRUE
    /\ Has(out, "events")

UsageChunks == {k \in 1..Len(out.events) : Has(out.events[k].data, "usage")}

\* C7: a streaming OpenAI chat completion with stream_options.include_usage
\* = false never emits a chunk carrying a usage field, and its event list
\* still ends with the [DONE] sentinel.
C7_NoUsageWhenDisabled ==
    (/\ ChatStreamSent
     /\ Has(req.body, "stream_options")
     /\ Has(req.body.stream_options, "include_usage")
     /\ req.body.stream_options.include_usage = FALSE)
    => /\ UsageChunks = {}
       /\ Len(out.events) > 0
       /\ out.events[Len(out.events)].data = DONE

\* such a request answered with the delta chunk, the finish chunk and [DONE]
C7_Witness ==
    /\ ChatStreamSent
    /\ Has(req.body, "stream_options")
    /\ req.body.stream_options = [include_usage |-> FALSE]
    /\ Len(out.events) = 3
    /\ out.events[3].data = DONE

\* C8: a streaming OpenAI chat completion request that does not set
\* stream_options yields an event stream that contains, before [DONE], a
\* chunk with a populated usage object (prompt_tokens, completion_tokens and
\* total_tokens).
C8_UsageChunkByDefault ==
    (ChatStreamSent /\ ~Has(req.body, "stream_options"))
    => \E k \in UsageChunks :
          /\ k < Len(out.events)
          /\ {"prompt_tokens", "completion_tokens", "total_tokens"}
                \subseteq DOMAIN out.events[k].data.usage

-----------------------------------------------------------------------------
(* Usage: the provider mappings and the overrides of a directive *)

MappingCall(name) == pc = "translated" /\ out.builder = name

\* the set with key when the canonical usage has the field, else empty
EmittedFor(field, key) ==
    IF Has(result.response.usage, field) THEN {key} ELSE {}

\* C9: for every canonical usage record and every provider mapping, an
\* optional detail field is emitted exactly when the canonical field it maps
\* (reasoning, cache_read, cache_creation) is present, and then with the same
\* value; a usage with only input and output yields no detail field at all.
C9_OptionalFieldsFaithful ==
    LET usage == result.response.usage
    IN  /\ MappingCall("mapUsageToOpenAIChat") =>
              /\ DOMAIN out.body \ {"prompt_tokens", "completion_tokens", "total_tokens"}
                    = EmittedFor("cache_read", "prompt_tokens_details")
                      \cup EmittedFor("reasoning", "completion_tokens_details")
              /\ Has(usage, "cache_read") =>
                    out.body.prompt_tokens_details = [cached_tokens |-> usage.cache_read]
              /\ Has(usage, "reasoning") =>
                    out.body.completion_tokens_details
                        = [reasoning_tokens |-> usage.reasoning]
        /\ MappingCall("mapUsageToOpenAIResponses") =>
              /\ DOMAIN out.body \ {"input_tokens", "output_tokens", "total_tokens"}
                    = EmittedFor("cache_read", "input_tokens_details")
                      \cup EmittedFor("reasoning", "output_tokens_details")
              /\ Has(usage, "cache_read") =>
                    out.body.input_tokens_details = [cached_tokens |-> usage.cache_read]
              /\ Has(usage, "reasoning") =>
                    out.body.output_tokens_details = [reasoning_tokens |-> usage.reasoning]
        /\ MappingCall("mapUsageToAnthropic") =>
              /\ DOMAIN out.body \ {"input_tokens", "output_tokens"}
                    = EmittedFor("cache_read", "cache_read_input_tokens")
                      \cup EmittedFor("cache_creation", "cache_creation_input_tokens")
              /\ Has(usage, "cache_read") =>
                    out.body.cache_read_input_tokens = usage.cache_read
              /\ Has(usage, "cache_creation") =>
                    out.body.cache_creation_input_tokens = usage.cache_creation
        /\ MappingCall("mapUsageToGemini") =>
              /\ DOMAIN out.body
                    \ {"promptTokenCount", "candidatesTokenCount", "totalTokenCount"}
                    = EmittedFor("cache_read", "cachedContentTokenCount")
              /\ Has(usage, "cache_read") =>
                    out.body.cachedContentTokenCount = usage.cache_read

\* a usage with only input and output mapped to OpenAI chat: no detail field
C9_Witness ==
    /\ MappingCall("mapUsageToOpenAIChat")
    /\ DOMAIN result.response.usage = {"input", "output"}
    /\ DOMAIN out.body = {"prompt_tokens", "completion_tokens", "total_tokens"}

\* the request was answered from a message directive that overrides
\* usage.output
OutputOverridden ==
    /\ pc = "sent"
    /\ triggerMatch # Null
    /\ Has(triggerMatch.response, "type")
    /\ triggerMatch.response.type = "message"
    /\ Has(triggerMatch.response, "usage")
    /\ Has(triggerMatch.response.usage, "output")

\* C10: for every message directive with a usage.output override v, the
\* output token count equals v in every provider's usage (OpenAI chat
\* completion_tokens, OpenAI responses output_tokens, Anthropic output_tokens
\* in the message and in message_delta, Gemini candidatesTokenCount) whatever
\* the lengths of content and reasoning, and the OpenAI and Gemini totals
\* equal input + v.
C10_OutputOverridePropagates ==
    OutputOverridden =>
        LET v == triggerMatch.response.usage.output
            input == IF Has(triggerMatch.response.usage, "input")
                     THEN triggerMatch.response.usage.input
                     ELSE countTokens(req.allText, config.tokenCounting)
            last == out.events[Len(out.events)]
        IN  /\ out.builder = "buildOpenAIChatResponse" =>
                  /\ out.body.usage.completion_tokens = v
                  /\ out.body.usage.total_tokens = input + v
            /\ out.builder = "buildOpenAIChatStreamEvents" =>
                  /\ (UsageChunks # {}) = IncludeUsage
                  /\ \A k \in UsageChunks :
                        /\ out.events[k].data.usage.completion_tokens = v
                        /\ out.events[k].data.usage.total_tokens = input + v
            /\ out.builder = "buildOpenAIResponsesResponse" =>
                  /\ out.body.usage.output_tokens = v
                  /\ out.body.usage.total_tokens = input + v
            /\ out.builder = "buildOpenAIResponsesEvents" =>
                  /\ last.data.usage.output_tokens = v
                  /\ last.data.usage.total_tokens = input + v
            /\ out.builder = "buildAnthropicMessageResponse" =>
                  out.body.usage.output_tokens = v
            /\ out.builder = "buildAnthropicStreamEvents" =>
                  out.events[5].data.usage.output_tokens = v
            /\ out.builder = "buildGeminiGenerateResponse" =>
                  /\ out.body.usageMetadata.candidatesTokenCount = v
                  /\ out.body.usageMetadata.totalTokenCount = input + v
            /\ out.builder = "buildGeminiStreamChunks" =>
                  /\ last.data.usageMetadata.candidatesTokenCount = v
                  /\ last.data.usageMetadata.totalTokenCount = input + v

\* the override 999999 on a directive with content and reasoning reaches the
\* message_delta of an Anthropic stream
C10_Witness ==
    /\ OutputOverridden
    /\ triggerMatch.response.usage.output = WeirdoOutput
    /\ triggerMatch.response.content # <<>>
    /\ Has(triggerMatch.response, "reasoning")
    /\ out.builder = "buildAnthropicStreamEvents"
    /\ out.events[5].data.usage.output_tokens = WeirdoOutput

-----------------------------------------------------------------------------
(* Usage: the computed output count *)

\* the whitespace-delimited tokens of a text: the ends of its runs of
\* characters that are not spaces
WordsIn(text) ==
    Cardinality({i \in 1..Len(text) :
                    /\ text[i] # " "
                    /\ (i = Len(text) \/ text[i + 1] = " ")})

\* the token count of a text under a strategy, as the usage calculator's
\* contract words it
TokensOf(text, strategy) == IF strategy = "words" THEN WordsIn(text) ELSE Len(text)

\* resolveResponse returned a canonical response for a directive
DirectiveResolved ==
    /\ pc = "resolved"
    /\ triggerMatch # Null
    /\ result.mode = "canonical"

DirectiveUsage ==
    IF Has(triggerMatch.response, "usage") THEN triggerMatch.response.usage ELSE EmptyObject

\* the statement with the count taken of content and reasoning concatenated
C11_OutputOfConcatenation ==
    DirectiveResolved =>
        result.response.usage.output
            = IF Has(DirectiveUsage, "output")
              THEN DirectiveUsage.output
              ELSE TokensOf(result.response.content \o TextOf(result.response, "reasoning"),
                            config.tokenCounting)

\* C11 (amended): when no output override is set, the usage.output computed
\* by the resolver equals the token count of response.content plus the token
\* count of response.reasoning, each counted on its own under the configured
\* strategy (chars or words); when overrides.output is set, usage.output
\* equals the override.
C11_OutputIsSumOfCounts ==
    DirectiveResolved =>
        result.response.usage.output
            = IF Has(DirectiveUsage, "output")
              THEN DirectiveUsage.output
              ELSE TokensOf(result.response.content, config.tokenCounting)
                   + TokensOf(TextOf(result.response, "reasoning"), config.tokenCounting)

\* words are counted of a two-word content and a two-word reasoning, with no
\* override of the output
C11_Witness ==
    /\ DirectiveResolved
    /\ config.tokenCounting = "words"
    /\ ~Has(DirectiveUsage, "output")
    /\ result.response.content = <<"a", " ", "b">>
    /\ TextOf(result.response, "reasoning") # <<>>
    /\ result.response.usage.output = 4

\* the optional fields a usage record has
OptionalUsageFields(usage) == DOMAIN usage \cap {"reasoning", "cache_read", "cache_creation"}

\* C12: every canonical response returned by resolveResponse has content and
\* usage populated, and usage.input, usage.output and every present optional
\* usage field are non-negative integers, for every directive, those that
\* supply usage overrides included.
C12_UsageNonNegative ==
    (pc = "resolved" /\ ~Has(result, "threw") /\ result.mode = "canonical") =>
        /\ Has(result.response, "content")
        /\ Has(result.response, "usage")
        /\ result.response.usage.input \in Nat
        /\ result.response.usage.output \in Nat
        /\ \A field \in OptionalUsageFields(result.response.usage) :
              result.response.usage[field] \in Nat

-----------------------------------------------------------------------------
(* Tool-call injection *)

\* the arguments a configured call gives, under either key, else none
ConfiguredArguments(call) ==
    IF Has(call, "arguments") THEN call.arguments
    ELSE IF Has(call, "args") THEN call.args
    ELSE EmptyObject

\* resolveResponse answered from a message directive that configures calls
ConfiguredCallsResolved ==
    /\ DirectiveResolved
    /\ Has(triggerMatch.response, "type")
    /\ triggerMatch.response.type = "message"
    /\ Has(triggerMatch.response, "tool_calls")
    /\ Len(triggerMatch.response.tool_calls) > 0

\* C13: tool-call injection never overwrites explicitly configured tool
\* calls: when the chosen message directive supplies a non-empty tool_calls
\* list, the canonical response's tool_calls are exactly the configured calls
\* (same names and arguments, in order), whatever tools, tool_choice or
\* x-tool-result header the request carries.
C13_ConfiguredCallsKept ==
    ConfiguredCallsResolved =>
        LET configured == triggerMatch.response.tool_calls
            calls == result.response.tool_calls
        IN  /\ Len(calls) = Len(configured)
            /\ \A i \in 1..Len(configured) :
                  /\ calls[i].name = configured[i].name
                  /\ calls[i].arguments = ConfiguredArguments(configured[i])
                  /\ Has(configured[i], "id") => calls[i].id = configured[i].id

\* two configured calls kept for a request that declares tools, chooses one
\* and forces arguments by header
C13_Witness ==
    /\ ConfiguredCallsResolved
    /\ Len(triggerMatch.response.tool_calls) = 2
    /\ Has(req.body, "tools")
    /\ Has(req.body, "tool_choice")
    /\ Has(req.body.tool_choice, "function")
    /\ Has(req.headers, "x-tool-result")
    /\ Len(result.response.tool_calls) = 2

\* the name of the first tool a request declares, in any provider's shape
FirstDeclaredTool(body) ==
    LET tools == IF Has(body, "tools") THEN body.tools ELSE body.functions
        first == tools[1]
    IN  IF Has(first, "function") THEN first.function.name
        ELSE IF Has(first, "functionDeclarations") THEN first.functionDeclarations[1].name
        ELSE first.name

\* the directive or behavior that answered configures no tool call
NoConfiguredCalls ==
    triggerMatch # Null =>
        (Has(triggerMatch.response, "tool_calls") => triggerMatch.response.tool_calls = <<>>)

\* C14: for a request that declares tools in any of the three provider
\* shapes and that resolves to a directive or behavior without tool_calls,
\* the canonical response carries exactly one synthesized tool call, named
\* after the first declared tool.
C14_OneCallForDeclaredTools ==
    (/\ pc = "resolved"
     /\ result.mode = "canonical"
     /\ Has(req.body, "tools") \/ Has(req.body, "functions")
     /\ ~Has(req.body, "tool_choice")
     /\ NoConfiguredCalls)
    => /\ Has(result.response, "tool_calls")
       /\ Len(result.response.tool_calls) = 1
       /\ result.response.tool_calls[1].name = FirstDeclaredTool(req.body)

-----------------------------------------------------------------------------
(* Errors: fixtures that cannot be loaded, and the providers' envelopes *)

\* the request was answered, or not, for a file directive whose fixture
\* cannot be read
UnloadableFixtureHandled ==
    /\ pc = "sent"
    /\ triggerMatch # Null
    /\ Has(triggerMatch.response, "type")
    /\ triggerMatch.response.type = "file"
    /\ TextOf(triggerMatch.response, "path") # <<>>
    /\ TextOf(triggerMatch.response, "path") \notin DOMAIN FileSystem

\* the body is an error in the envelope of the provider
IsEnvelopeOf(provider, body) ==
    IF provider = "anthropic"
    THEN /\ DOMAIN body = {"type", "error"}
         /\ body.type = "error"
         /\ DOMAIN body.error = {"type", "message"}
    ELSE IF provider = "gemini"
    THEN /\ DOMAIN body = {"error"}
         /\ DOMAIN body.error = {"code", "message", "status"}
    ELSE /\ DOMAIN body = {"error"}
         /\ {"message", "type"} \subseteq DOMAIN body.error

\* C15: when a trigger resolves to a file directive whose fixture cannot be
\* loaded, the request is answered with HTTP status 500 and a JSON body in
\* the calling provider's error envelope; it is never left unanswered and no
\* raw stack trace is sent.
C15_FixtureFailureIs500 ==
    UnloadableFixtureHandled =>
        /\ Has(out, "status")
        /\ out.status = 500
        /\ ~Has(out, "stack")
        /\ Has(out, "body")
        /\ IsEnvelopeOf(ProviderOf(req.endpoint), out.body)

\* C16: every error response sent while handling a request on an Anthropic
\* endpoint has the Anthropic envelope {type: error, error: {type, message}}
\* and every error response on a Gemini endpoint has the Gemini envelope
\* {error: {code, message, status}}, whatever the cause: strict validation,
\* unknown model, simulated error, error directive, fixture error or missing
\* API key.
C16_ProviderEnvelope ==
    (/\ pc = "sent"
     /\ Has(out, "status")
     /\ out.status >= 400
     /\ Has(out, "body")
     /\ req.endpoint \in {"anthropic", "gemini"})
    => IsEnvelopeOf(IF req.endpoint = "anthropic" THEN "anthropic" ELSE "gemini", out.body)

(* C17: the stream emitter writes the events in list order, one after another,
   after waiting floor(totalDelayMs / max(1, eventCount)) ms before each event,
   the first included; it ends the response exactly once, after the last event
   has been written; in NDJSON mode no event name is ever written. *)
Emitting == pc \in {"loop", "write", "caught", "streamed"}

PerEventDelay ==
    sse.delayMs \div (IF Len(sse.events) > 0 THEN Len(sse.events) ELSE 1)

IsNameLine(line) == Has(line, "event")

IsPayloadLine(line) == ~Has(line, "event")

PayloadLines == SelectSeq(sse.written, IsPayloadLine)

NamedEvents == {i \in 1..sse.index : Has(sse.events[i], "event")}

CarriesDataOf(line, event) ==
    IF sse.useNdjson
    THEN line = [ndjson |-> [json |-> event.data]]
    ELSE line \in {[data |-> event.data], [data |-> [json |-> event.data]]}

C17_EmitterOrderAndPacing ==
    Emitting =>
        /\ Len(PayloadLines) = sse.index
        /\ \A i \in 1..sse.index : CarriesDataOf(PayloadLines[i], sse.events[i])
        /\ sse.useNdjson => \A k \in 1..Len(sse.written) : ~IsNameLine(sse.written[k])
        /\ Len(SelectSeq(sse.written, IsNameLine))
             = (IF sse.includeEvent /\ ~sse.useNdjson THEN Cardinality(NamedEvents) ELSE 0)
        /\ \A k \in 1..Len(sse.delays) : sse.delays[k] = PerEventDelay
        /\ IF PerEventDelay > 0
           THEN /\ Len(sse.delays) \in {sse.index, sse.index + 1}
                /\ pc = "write" => Len(sse.delays) = sse.index + 1
                /\ pc = "loop" => Len(sse.delays) = sse.index
                /\ pc = "streamed" /\ ~sse.closed => Len(sse.delays) = sse.index
           ELSE sse.delays = <<>>
        /\ sse.ended <= 1
        /\ pc = "streamed" => sse.ended = 1
        /\ sse.ended = 1 /\ ~sse.closed => sse.index = Len(sse.events)

C17_Witness ==
    /\ pc = "streamed"
    /\ ~sse.closed
    /\ sse.useNdjson /\ sse.includeEvent
    /\ sse.events = buildAnthropicStreamEvents(SampleResponse, ModelM)
    /\ sse.delayMs = MaxDelayMs
    /\ Len(sse.delays) = 6
    /\ Len(sse.written) = 6
    /\ sse.ended = 1

(* C18: if the client disconnects while a paced stream is being emitted, the
   emitter stops after the delay/write cycle in progress: no event after that
   cycle is delayed for or written. *)
PacedStreamCutOff == Emitting /\ sse.closed /\ sse.chunkDelay > 0

C18_StopsAfterDisconnect ==
    PacedStreamCutOff =>
        /\ sse.index <= sse.closedIn
        /\ Len(sse.delays) <= sse.closedIn

(* C19: when a raw trigger list is parsed, only the first _inherit item and the
   first _default item take effect; every later item containing _inherit or
   _default is ignored: it changes neither parent nor defaultEntry and adds no
   trigger entry. *)
ObjectItems(list) == {i \in 1..Len(list) : Has(list[i], "object")}

KeysOf(item) == {item.object[i].key : i \in 1..Len(item.object)}

ItemsWith(list, key) == {i \in ObjectItems(list) : key \in KeysOf(list[i])}

First(indices) == CHOOSE i \in indices : \A j \in indices : i <= j

ValueAt(item, key) ==
    item.object[CHOOSE i \in 1..Len(item.object) : item.object[i].key = key].value

IsTriggerItem(item) ==
    /\ Has(item, "object")
    /\ Len(item.object) = 1
    /\ item.object[1].key \notin {InheritKey, DefaultKey}

TriggerOf(item) == [match |-> item.object[1].key, response |-> item.object[1].value]

RECURSIVE TriggersOf(_)
TriggersOf(list) ==
    IF list = <<>> THEN <<>>
    ELSE TriggersOf(SubSeq(list, 1, Len(list) - 1))
         \o (IF IsTriggerItem(list[Len(list)]) THEN <<TriggerOf(list[Len(list)])>> ELSE <<>>)

FirstParentValue(list) == ValueAt(list[First(ItemsWith(list, InheritKey))], InheritKey)

C19_FirstOccurrenceWins ==
    pc = "parsed" =>
        /\ out.parsed.entries = TriggersOf(out.list)
        /\ Has(out.parsed, "parent") =>
              /\ ItemsWith(out.list, InheritKey) # {}
              /\ [string |-> out.parsed.parent] = FirstParentValue(out.list)
        /\ Has(out.parsed, "defaultEntry") =>
              /\ ItemsWith(out.list, DefaultKey) # {}
              /\ out.parsed.defaultEntry.response
                   = ValueAt(out.list[First(ItemsWith(out.list, DefaultKey))], DefaultKey)

(* C20: public model listings hide a model name only if it is a pure base
   model, referenced as an _inherit parent and not itself defined; a name that
   is referenced as a parent and is also defined as a model of its own is
   listed. *)
DefinedNames ==
    DOMAIN config.modelRegistry.triggerModels \cup DOMAIN config.modelRegistry.behaviorModels

ReferencedAsParent(name) ==
    \E child \in DOMAIN config.modelRegistry.triggerModels :
        /\ Has(config.modelRegistry.triggerModels[child], "parent")
        /\ config.modelRegistry.triggerModels[child].parent = name

C20_DefinedParentsListed ==
    pc = "listed" =>
        \A name \in DefinedNames :
            ReferencedAsParent(name) /\ name[1] # "_" => name \in out.names

(* C21: handling any sequence or interleaving of requests, paced streams
   suspended in their delay included, leaves the model registry as it was
   built, and the result of a request is the one its own model, message and
   headers give on that registry, whatever ran before or runs meanwhile. *)
C21_RegistryReadOnly ==
    /\ [][config'.modelRegistry = config.modelRegistry]_vars
    /\ [](config.modelRegistry = ConcurrentConfig.modelRegistry)
    /\ []((pc = "resolved" /\ ~Has(result, "threw")) =>
            /\ result.behavior = FirstApplicableBehavior
            /\ ExpectedTrigger # Null /\ Has(ExpectedTrigger.response, "string")
               => result.response.content = ExpectedTrigger.response.string)

\* a request is resolved from the parent's default while the stream of an
\* earlier request is suspended in the delay before its second event
C21_Witness ==
    /\ pc = "resolved"
    /\ req.model = ModelM
    /\ req.lastUser = <<"n">>
    /\ result.response.content = DefaultDirective(<<"B">>).string
    /\ sse # Null
    /\ sse.index = 1
    /\ Len(sse.delays) = 1

(* C22: when a streaming fixture is replayed, the chunks of response.body are
   emitted in stored order; a chunk with a true done becomes the literal
   [DONE]; else an object chunk with an event field is emitted under that
   event name with its data field (the whole chunk when it has none) as data;
   else an object whose type starts with message_ is emitted under that type
   as event name; every other chunk is emitted as an anonymous data: event.
   Event names are written on an SSE stream only, not on an NDJSON one. *)
Replaying == pc \in {"loop", "write", "streamed"} /\ Has(sse, "chunks")

IsDoneChunk(chunk) == Has(chunk, "done") /\ chunk.done

HasMessageType(chunk) ==
    /\ Has(chunk, "type")
    /\ Len(chunk.type) >= 8
    /\ SubSeq(chunk.type, 1, 8) = <<"m", "e", "s", "s", "a", "g", "e", "_">>

\* the stored order is kept and the payload written for chunk i is that of event i
StoredOrderKept ==
    /\ Len(sse.events) = Len(sse.chunks)
    /\ Len(PayloadLines) = sse.index
    /\ \A i \in 1..sse.index : CarriesDataOf(PayloadLines[i], sse.events[i])
    /\ Len(SelectSeq(sse.written, IsNameLine))
         = (IF sse.useNdjson THEN 0 ELSE Cardinality(NamedEvents))

C22_RecordedChunkMapping ==
    Replaying =>
        /\ StoredOrderKept
        /\ \A i \in 1..Len(sse.chunks) :
              IF IsDoneChunk(sse.chunks[i])
              THEN sse.events[i] = [data |-> DONE]
              ELSE IF Has(sse.chunks[i], "event")
              THEN /\ Has(sse.events[i], "event")
                   /\ sse.events[i].event = sse.chunks[i].event
                   /\ sse.events[i].data = (IF Has(sse.chunks[i], "data")
                                            THEN sse.chunks[i].data ELSE sse.chunks[i])
              ELSE IF HasMessageType(sse.chunks[i])
              THEN sse.events[i] = [event |-> sse.chunks[i].type, data |-> sse.chunks[i]]
              ELSE sse.events[i] = [data |-> sse.chunks[i]]

\* a named chunk and the terminator have been replayed on an SSE stream
C22_Witness ==
    /\ pc = "streamed"
    /\ Has(sse, "chunks")
    /\ ~sse.useNdjson
    /\ sse.chunks = <<[event |-> <<"e">>, data |-> [text |-> <<"x">>]], [done |-> TRUE]>>
    /\ sse.written = <<[event |-> <<"e">>], [data |-> [text |-> <<"x">>]], [data |-> DONE]>>

\* the claim as stated: only done chunks and message_ types are special
C22_OnlyMessageTypesNamed ==
    Replaying =>
        /\ StoredOrderKept
        /\ \A i \in 1..Len(sse.chunks) :
              IF IsDoneChunk(sse.chunks[i])
              THEN sse.events[i] = [data |-> DONE]
              ELSE IF HasMessageType(sse.chunks[i])
              THEN sse.events[i] = [event |-> sse.chunks[i].type, data |-> sse.chunks[i]]
              ELSE sse.events[i] = [data |-> sse.chunks[i]]

(* C23: replaying a non-streaming fixture returns the stored body verbatim
   with the stored status and headers: response.body when the document has
   one, and the document's top-level body when it has no response.body. *)
ReplayedAtOnce == pc = "sent" /\ Has(out, "recorded")

StoredResponse ==
    IF Has(out.recorded, "response") THEN out.recorded.response ELSE EmptyObject

C23_StoredBodyVerbatim ==
    ReplayedAtOnce =>
        /\ Has(StoredResponse, "status") => out.status = StoredResponse.status
        /\ Has(StoredResponse, "headers") => out.headers = StoredResponse.headers
        /\ Has(StoredResponse, "body") => out.body = StoredResponse.body
        /\ (~Has(StoredResponse, "body") /\ Has(out.recorded, "body"))
           => out.body = out.recorded.body

(* C24: with require_auth enabled a request is answered 401 exactly when it
   carries none of the headers Authorization, x-api-key and x-goog-api-key;
   with require_auth disabled no request is rejected for missing credentials. *)
CarriesCredentials ==
    \E key \in {"authorization", "x-api-key", "x-goog-api-key"} :
        Has(req.headers, key) /\ req.headers[key] # <<>>

C24_AuthGate ==
    pc = "sent" =>
        (out.status = 401 <=> (config.requireAuth /\ ~CarriesCredentials))

(* C25: for the robot behavior the content is the response of the first rule,
   in list order, whose match equals the input exactly or is a /pattern/flags
   string whose regular expression matches the input; a malformed pattern
   counts as no regex match; when no rule matches, the content is the
   script's fallback text. *)
RuleApplies(i) ==
    \/ out.script.rules[i].match = out.userInput
    \/ isRegexMatch(out.script.rules[i].match, out.userInput)

C25_FirstRuleWins ==
    pc = "matched" =>
        /\ \A i \in 1..Len(out.script.rules) :
              (RuleApplies(i) /\ \A j \in 1..(i - 1) : ~RuleApplies(j))
              => out.content = out.script.rules[i].response
        /\ (\A i \in 1..Len(out.script.rules) : ~RuleApplies(i))
           => out.content = (IF Has(out.script, "fallback") THEN out.script.fallback ELSE <<>>)

\* a pattern that does not compile is passed over and the next rule answers
C25_Witness ==
    /\ pc = "matched"
    /\ Len(out.script.rules) = 2
    /\ out.script.rules[1].match = <<"/", "(", "/">>
    /\ out.script.rules[2].match = <<"/", "H", "/", "i">>
    /\ out.userInput = <<"o", "h">>
    /\ out.content = <<"r", "2">>

(* C26: after any sequence of FileStore create and delete operations, list()
   returns exactly the records created and not yet deleted, get(id) returns a
   record iff id is in that set and null otherwise, delete(id) reports
   deleted = true iff id was in the set just before the call, and get and
   list never change the store. *)
StoredIds == DOMAIN fileStore.files

C26_StoreTracksCreatesAndDeletes ==
    [][/\ out'.op = "create" =>
             /\ out'.returned.id \notin fileStore.issued
             /\ DOMAIN fileStore'.files = StoredIds \cup {out'.returned.id}
             /\ fileStore'.files[out'.returned.id] = out'.returned
             /\ \A id \in StoredIds : fileStore'.files[id] = fileStore.files[id]
       /\ out'.op = "delete" =>
             /\ out'.returned.deleted = (out'.id \in StoredIds)
             /\ DOMAIN fileStore'.files = StoredIds \ {out'.id}
             /\ \A id \in StoredIds \ {out'.id} : fileStore'.files[id] = fileStore.files[id]
       /\ out'.op = "list" =>
             /\ fileStore' = fileStore
             /\ {file.id : file \in out'.returned} = StoredIds
             /\ \A file \in out'.returned :
                   /\ file.filename = fileStore.files[file.id].filename
                   /\ file.bytes = fileStore.files[file.id].bytes
       /\ out'.op = "get" =>
             /\ fileStore' = fileStore
             /\ (out'.returned # Null) = (out'.id \in StoredIds)
             /\ out'.id \in StoredIds => out'.returned.id = out'.id
      ]_vars

\* the second delete of an id that was created and deleted reports false
C26_Witness ==
    /\ out # Null
    /\ out.op = "delete"
    /\ out.id \in fileStore.issued
    /\ out.id \notin DOMAIN fileStore.files
    /\ ~out.returned.deleted
    /\ DOMAIN fileStore.files # {}

(* C27: every model name returned by the model listing endpoints is accepted
   by the generation endpoints: a request naming it is not rejected with 404
   Unknown model, also when every configured model is hidden from the listing
   and the listing falls back to the built-in names. *)
C27_ListedModelsAccepted ==
    (pc = "sent" /\ req # Null) => out.status # 404

\* the content blocks the stream opens, and the text its deltas carry
StartedBlockTypes ==
    {out.events[i].data.content_block.type :
        i \in {j \in DOMAIN out.events : out.events[j].event = "content_block_start"}}

DeltaTexts ==
    {out.events[i].data.delta.text :
        i \in {j \in DOMAIN out.events : out.events[j].event = "content_block_delta"}}

(* C28: the Anthropic streaming events convey the same content as the
   non-streaming message built from the same canonical response: the text
   delta equals the text block, and every thinking and tool_use block of
   buildAnthropicMessageResponse is also conveyed by the events of
   buildAnthropicStreamEvents. *)
C28_StreamConveysMessageContent ==
    AnthropicStreamCall =>
        LET blocks == buildAnthropicMessageResponse(result.response, modelName).content
        IN  \A i \in DOMAIN blocks :
                IF blocks[i].type = "text"
                THEN blocks[i].text \in DeltaTexts
                ELSE blocks[i].type \in StartedBlockTypes

SentToChild(name) == <<[pid |-> daemon.child, signal |-> name, at |-> daemon.now]>>

(* C29: the start command writes the PID file only after the forked child
   has sent a ready message, and the PID written is that child's; when the
   child reports an error, exits, or has not reported ready within
   START_TIMEOUT_MS (5000 ms), start sends SIGTERM to the child and writes no
   PID file; when the PID file already names a running process, start fails
   without forking and leaves the PID file unchanged. *)
C29_StartWritesPidAfterReady ==
    /\ pc = "start" => daemon.child = 0 /\ daemon.signals = <<>>
    /\ pc = "waitForReady" =>
          /\ daemon.pidFile = 0
          /\ daemon.child \in Pids
          /\ daemon.signals = <<>>
    /\ pc = "started" =>
          /\ daemon.message = [type |-> "ready"]
          /\ daemon.child \in Pids
          /\ daemon.pidFile = daemon.child
          /\ daemon.signals = <<>>
          /\ daemon.now - ClockStepMs < START_TIMEOUT_MS
    /\ (pc = "thrown" /\ daemon.child # 0) =>
          /\ daemon.pidFile = 0
          /\ daemon.signals = SentToChild("SIGTERM")
          /\ daemon.error \in {"Server failed to start", "Server process exited",
                               "Timed out waiting for server to start"}
          /\ daemon.error = "Timed out waiting for server to start"
                => daemon.now >= START_TIMEOUT_MS
          /\ daemon.error = "Server process exited" => daemon.child \notin daemon.running
    /\ (pc = "thrown" /\ daemon.child = 0) =>
          /\ daemon.existingPid \in daemon.running
          /\ daemon.pidFile = daemon.existingPid
          /\ daemon.signals = <<>>
    /\ daemon.child # 0 => daemon.existingPid \notin daemon.running \ {daemon.child}

\* a stale PID file was replaced by the PID of a child that reported ready
\* after some time
C29_Witness ==
    /\ pc = "started"
    /\ daemon.existingPid # 0
    /\ daemon.pidFile # daemon.existingPid
    /\ daemon.now > 0

(* C30: whenever the stop command returns without throwing, the PID file no
   longer exists and the process it named is not running; stop sends SIGTERM
   first, sends SIGKILL only after the process has survived STOP_TIMEOUT_MS
   (5000 ms), and when the process survives a further FORCE_STOP_TIMEOUT_MS
   (2000 ms) it throws and leaves the PID file in place. *)
C30_StopLeavesNoProcess ==
    /\ pc = "returned" =>
          /\ daemon.pidFile = 0
          /\ daemon.pid \notin daemon.running
    /\ Len(daemon.signals) <= 2
    /\ \A i \in DOMAIN daemon.signals : daemon.signals[i].pid = daemon.pid
    /\ Len(daemon.signals) >= 1 => daemon.signals[1].signal = "SIGTERM"
    /\ Len(daemon.signals) = 2 =>
          /\ daemon.signals[2].signal = "SIGKILL"
          /\ daemon.signals[2].at - daemon.signals[1].at >= STOP_TIMEOUT_MS
    /\ pc \in {"kill", "waitForExit", "waitForForcedExit", "thrown"} =>
          daemon.pidFile = daemon.pid /\ daemon.pid \in Pids
    /\ pc = "thrown" =>
          /\ daemon.pid \in daemon.running
          /\ \/ daemon.error = "EPERM" /\ daemon.signals = <<>>
             \/ /\ daemon.error = "did not exit after SIGKILL"
                /\ Len(daemon.signals) = 2
                /\ daemon.now - daemon.signals[2].at >= FORCE_STOP_TIMEOUT_MS

\* the process survived SIGTERM for the whole wait and went after SIGKILL
C30_Witness ==
    /\ pc = "returned"
    /\ Len(daemon.signals) = 2
    /\ daemon.pid \in Pids

====
